---- MODULE Spec2Model ----
(***************************************************************************)
(* Magnum::Framebuffer (src/src/Framebuffer.h) over the OpenGL context it  *)
(* drives.  The class holds one field, the native handle `framebuffer`,    *)
(* and one static, `clearMask`; everything else it changes is state of the *)
(* current OpenGL context, reached through the gl* calls of the header.    *)
(* The context state those calls read and write is modelled here with the  *)
(* semantics the OpenGL specification gives the calls.  The desktop build  *)
(* (MAGNUM_TARGET_GLES undefined) is the one modelled.  setFeature,        *)
(* mapForDraw, mapDefaultForDraw and read are only declared in the header  *)
(* (their bodies and the initial clearMask are in Framebuffer.cpp); they   *)
(* are modelled after their documentation.                                 *)
(***************************************************************************)
EXTENDS Integers, Sequences, FiniteSets, TLC

(***************************************************************************)
(* Bounds of the model.                                                    *)
(***************************************************************************)
\* Attach calls issued in one run.
MaxAttachCalls == 2
\* The highest mip level an attach call is given.
MaxMipLevel == 1
\* The highest 3D texture layer an attach call is given.
MaxLayer == 2
\* Clear calls issued in one run.
MaxClearCalls == 2
\* Blit and read calls issued in one run.
MaxTransferCalls == 1
\* Settings a run of the setters sets to other values than the initial ones.
MaxSettings == 2
\* Width and height of every image, in pixels.
Width == 2
Height == 1
\* Floating-point values are counted in steps of 1/One: One stands for 1.0.
One == 2
\* Bits of a stencil buffer.
StencilBits == 2

(***************************************************************************)
(* Native constants the header's enums are set to.                         *)
(***************************************************************************)
GL_NONE == 0

\* enum class Target
GL_READ_FRAMEBUFFER == 36008
GL_DRAW_FRAMEBUFFER == 36009
GL_FRAMEBUFFER == 36160
Target == {GL_READ_FRAMEBUFFER, GL_DRAW_FRAMEBUFFER, GL_FRAMEBUFFER}

\* enum class DepthStencilAttachment, and the color attachments: "Color
\* attachment ID (number between 0 and 15)"
GL_COLOR_ATTACHMENT0 == 36064
MaxColorAttachmentId == 15
GL_DEPTH_ATTACHMENT == 36096
GL_STENCIL_ATTACHMENT == 36128
GL_DEPTH_STENCIL_ATTACHMENT == 33306
DepthStencilAttachment ==
    {GL_DEPTH_ATTACHMENT, GL_STENCIL_ATTACHMENT, GL_DEPTH_STENCIL_ATTACHMENT}

\* renderbuffer and texture targets handed to the native attach calls
GL_RENDERBUFFER == 36161
GL_TEXTURE_1D == 3552
GL_TEXTURE_2D == 3553
GL_TEXTURE_3D == 32879
GL_TEXTURE_CUBE_MAP_POSITIVE_X == 34069
GL_TEXTURE_CUBE_MAP_NEGATIVE_Y == 34072

\* enum class Feature
GL_BLEND == 3042
GL_DEPTH_CLAMP == 34383
GL_DEPTH_TEST == 2929
GL_STENCIL_TEST == 2960
GL_DITHER == 3024
GL_CULL_FACE == 2884
Feature ==
    {GL_BLEND, GL_DEPTH_CLAMP, GL_DEPTH_TEST, GL_STENCIL_TEST, GL_DITHER, GL_CULL_FACE}

\* enum class Clear; ClearMask is a Set<Clear, GLbitfield>: the bits or-ed together
GL_COLOR_BUFFER_BIT == 16384
GL_DEPTH_BUFFER_BIT == 256
GL_STENCIL_BUFFER_BIT == 1024
Clear == {GL_COLOR_BUFFER_BIT, GL_DEPTH_BUFFER_BIT, GL_STENCIL_BUFFER_BIT}

\* enum class DefaultDrawAttachment / DefaultReadAttachment
GL_FRONT_LEFT == 1024
GL_FRONT_RIGHT == 1025
GL_BACK_LEFT == 1026
GL_BACK_RIGHT == 1027
GL_FRONT == 1028
GL_BACK == 1029
GL_LEFT == 1030
GL_RIGHT == 1031
GL_FRONT_AND_BACK == 1032
DefaultDrawAttachment == {GL_NONE, GL_BACK_LEFT, GL_BACK_RIGHT, GL_FRONT_LEFT, GL_FRONT_RIGHT}
DefaultReadAttachment ==
    {GL_FRONT_LEFT, GL_FRONT_RIGHT, GL_BACK_LEFT, GL_BACK_RIGHT, GL_LEFT, GL_RIGHT,
     GL_FRONT, GL_BACK, GL_FRONT_AND_BACK}

\* AbstractTexture::Filter
GL_NEAREST == 9728
GL_LINEAR == 9729

\* enum class BlendEquation and the values of enum class BlendFunction used here.
GL_FUNC_ADD == 32774
GL_FUNC_SUBTRACT == 32778
GL_MAX == 32776
GL_ZERO == 0
GL_ONE == 1
GL_SRC_ALPHA == 770
GL_ONE_MINUS_SRC_ALPHA == 771
Filter == {GL_NEAREST, GL_LINEAR}

(***************************************************************************)
(* Inputs the operations are called with.                                  *)
(***************************************************************************)
\* Two custom framebuffers beside the default one (handle 0).
Handles == {1, 2}
\* The lowest and the highest color attachment ID.
ColorAttachmentIds == {0, MaxColorAttachmentId}
\* The lowest and the highest mip level.
MipLevels == {0, MaxMipLevel}
\* Resource objects of the collaborating classes, by native id.
Renderbuffers == {1}
Textures1D == {2}
Textures2D == {3}
CubeMapTextures == {4}
Textures3D == {5}
\* The features toggled: the two tests the clear mask follows, and one other.
ToggledFeatures == {GL_DEPTH_TEST, GL_STENCIL_TEST}
\* Every clear mask: the unions of the subsets of Clear.
ClearMasks ==
    {c + d + s : c \in {0, GL_COLOR_BUFFER_BIT}, d \in {0, GL_DEPTH_BUFFER_BIT},
                 s \in {0, GL_STENCIL_BUFFER_BIT}}
\* Clear values other than the initial ones.
ClearColors == {<<1, One, 0, One>>}
ClearDepths == {0}
ClearStencils == {1}

(***************************************************************************)
(* State.                                                                  *)
(***************************************************************************)
VARIABLES
    alive,          \* handles of the Framebuffer objects constructed and not destroyed
    names,          \* framebuffer names the context has generated and not deleted
    readFb,         \* handle bound to GL_READ_FRAMEBUFFER (0: default framebuffer)
    drawFb,         \* handle bound to GL_DRAW_FRAMEBUFFER (0: default framebuffer)
    attachments,    \* attachments[h][point]: the image attached to a point of object h
    drawBuffers,    \* drawBuffers[h]: the draw mapping of framebuffer h (0: default)
    readBuffer,     \* readBuffer[h]: the read mapping of framebuffer h (0: default)
    enabled,        \* the features enabled in the context
    clearMask,      \* static ClearMask clearMask: what the no-argument clear() clears
    clearValues,    \* the clear color, clear depth and clear stencil of the context
    writeMasks,     \* the color, depth and stencil write masks of the context
    content,        \* content[image][plane][pixel]: the pixels of the images written
    image2D,        \* the Image2D that read() fills: its dimensions and its data
    glError,        \* the context's error flag (the header never reads it)
    attachCalls,    \* attach calls issued so far
    clearCalls,     \* clear calls issued so far
    transferCalls,  \* blit and read calls issued so far
    blending,       \* the blend equations, blend functions and blend color of the context
    viewport,       \* the viewport of the context: its position and its size
    threads,        \* the callers' threads: the call each one is in the middle of
    call            \* the operation called last, with its arguments

\* The framebuffer objects' own state, the binding points, the pipeline state,
\* and the counters that bound a run.
objectVars == <<alive, attachments, drawBuffers, readBuffer>>
bindingVars == <<readFb, drawFb>>
pipelineVars == <<enabled, clearMask, clearValues, writeMasks>>
counters == <<attachCalls, clearCalls, transferCalls>>
vars == <<alive, names, readFb, drawFb, attachments, drawBuffers, readBuffer, enabled,
          clearMask, clearValues, writeMasks, content, image2D, glError, attachCalls,
          clearCalls, transferCalls, blending, viewport, threads, call>>

\* The attachment points of a framebuffer object that the calls address.
AttachmentPoints ==
    {GL_COLOR_ATTACHMENT0 + i : i \in ColorAttachmentIds}
        \cup {GL_DEPTH_ATTACHMENT, GL_STENCIL_ATTACHMENT}

\* What an attachment point holds: nothing, or one image of a resource.
NoAttachment ==
    [kind |-> "none", id |-> 0, textarget |-> GL_NONE, level |-> 0, layer |-> 0]

RenderbufferImage(id) ==
    [kind |-> "renderbuffer", id |-> id, textarget |-> GL_RENDERBUFFER,
     level |-> 0, layer |-> 0]

TextureImage(textarget, id, level, layer) ==
    [kind |-> "texture", id |-> id, textarget |-> textarget,
     level |-> level, layer |-> layer]

EmptyAttachments == [p \in AttachmentPoints |-> NoAttachment]

\* The first error raised stays in the flag until it is read.
RaiseError(flag, error) == IF flag = "GL_NO_ERROR" THEN error ELSE flag

(***************************************************************************)
(* Native calls, as functions of the context state they read.              *)
(***************************************************************************)
\* The two binding points as one value.
Bindings == [read |-> readFb, draw |-> drawFb]

\* glBindFramebuffer(target, id): GL_FRAMEBUFFER sets both binding points.
glBindFramebuffer(b, target, id) ==
    IF target = GL_FRAMEBUFFER THEN [read |-> id, draw |-> id]
    ELSE IF target = GL_READ_FRAMEBUFFER THEN [b EXCEPT !.read = id]
    ELSE IF target = GL_DRAW_FRAMEBUFFER THEN [b EXCEPT !.draw = id]
    ELSE b

\* The object a native framebuffer call with `target` addresses:
\* GL_FRAMEBUFFER is equivalent to GL_DRAW_FRAMEBUFFER there.
BoundTo(b, target) == IF target = GL_READ_FRAMEBUFFER THEN b.read ELSE b.draw

\* A native attach whose combined depth/stencil case sets the depth point only.
glFramebufferAttach_DepthOnly(att, b, target, attachment, image) ==
    LET fb == IF target = GL_READ_FRAMEBUFFER THEN b.read ELSE b.draw IN
    IF fb = 0 THEN att
    ELSE IF attachment = GL_DEPTH_STENCIL_ATTACHMENT
        THEN [att EXCEPT ![fb][GL_DEPTH_ATTACHMENT] = image]
    ELSE IF attachment \in AttachmentPoints
        THEN [att EXCEPT ![fb][attachment] = image]
    ELSE att

\* glFramebufferRenderbuffer / glFramebufferTexture{1D,2D,3D}: attach `image` to
\* `attachment` of the object bound to `target`.  GL_DEPTH_STENCIL_ATTACHMENT sets
\* the depth and the stencil point; the default framebuffer takes no attachment.
glFramebufferAttach(att, b, target, attachment, image) ==
    LET fb == BoundTo(b, target) IN
    IF fb = 0 THEN att
    ELSE IF attachment = GL_DEPTH_STENCIL_ATTACHMENT
        THEN [att EXCEPT ![fb][GL_DEPTH_ATTACHMENT] = image,
                         ![fb][GL_STENCIL_ATTACHMENT] = image]
    ELSE IF attachment \in AttachmentPoints
        THEN [att EXCEPT ![fb][attachment] = image]
    ELSE att

\* The error the native attach call raises, if any.
glFramebufferAttachError(b, target, attachment) ==
    IF BoundTo(b, target) = 0 THEN "GL_INVALID_OPERATION"
    ELSE IF attachment \notin AttachmentPoints \cup {GL_DEPTH_STENCIL_ATTACHMENT}
        THEN "GL_INVALID_ENUM"
    ELSE "GL_NO_ERROR"

\* glGetFramebufferAttachmentParameter on object fb: what `attachment` holds.
\* GL_DEPTH_STENCIL_ATTACHMENT answers only when both points hold the same image.
SlotContents(att, fb, attachment) ==
    IF attachment = GL_DEPTH_STENCIL_ATTACHMENT
        THEN IF att[fb][GL_DEPTH_ATTACHMENT] = att[fb][GL_STENCIL_ATTACHMENT]
                THEN att[fb][GL_DEPTH_ATTACHMENT]
                ELSE NoAttachment
        ELSE att[fb][attachment]

\* Bits of a GLbitfield.  Every mask bit is a power of two.
HasBit(mask, bit) == (mask \div bit) % 2 = 1
WithBit(mask, bit) == IF HasBit(mask, bit) THEN mask ELSE mask + bit
WithoutBit(mask, bit) == IF HasBit(mask, bit) THEN mask - bit ELSE mask
\* The union of two clear masks.
WithBitsOf(mask, other) ==
    LET add(m, bit) == IF HasBit(other, bit) THEN WithBit(m, bit) ELSE m IN
    add(add(add(mask, GL_COLOR_BUFFER_BIT), GL_DEPTH_BUFFER_BIT), GL_STENCIL_BUFFER_BIT)
\* A stencil write mask with every bit set, the initial one.  Of the GLuint only
\* the bits a stencil buffer has are kept.
AllBits == 2^StencilBits - 1

\* The pixels of an image, and the value of a pixel nothing was written to.
Pixels == (0..(Width - 1)) \X (0..(Height - 1))
Undefined == -1
BlankImage ==
    [color |-> [px \in Pixels |-> <<Undefined, Undefined, Undefined, Undefined>>],
     depth |-> [px \in Pixels |-> Undefined],
     stencil |-> [px \in Pixels |-> Undefined]]
ImageOf(c, image) == IF image \in DOMAIN c THEN c[image] ELSE BlankImage

\* The buffers of the default framebuffer: a double-buffered, monoscopic window
\* with a depth and a stencil buffer.
DefaultBuffer(buffer) ==
    [kind |-> "default", id |-> 0, textarget |-> buffer, level |-> 0, layer |-> 0]
DefaultColorBuffers == {GL_FRONT_LEFT, GL_BACK_LEFT}

\* Color buffers of which only the one the first entry of the draw mapping
\* selects is written.
ColorBuffersOf_FirstOnly(fb) ==
    LET mapped == IF drawBuffers[fb] = <<>> THEN {} ELSE {drawBuffers[fb][1]} IN
    IF fb = 0 THEN {DefaultBuffer(b) : b \in mapped \cap DefaultColorBuffers}
    ELSE {attachments[fb][p] : p \in mapped \cap AttachmentPoints} \ {NoAttachment}

\* The images a clear of framebuffer fb writes: the color buffers its draw
\* mapping selects, its depth buffer and its stencil buffer.
ColorBuffersOf(fb) ==
    LET mapped == {drawBuffers[fb][i] : i \in DOMAIN drawBuffers[fb]} IN
    IF fb = 0 THEN {DefaultBuffer(b) : b \in mapped \cap DefaultColorBuffers}
    ELSE {attachments[fb][p] : p \in mapped \cap AttachmentPoints} \ {NoAttachment}
DepthBufferOf(fb) ==
    IF fb = 0 THEN DefaultBuffer(GL_DEPTH_ATTACHMENT)
    ELSE attachments[fb][GL_DEPTH_ATTACHMENT]
StencilBufferOf(fb) ==
    IF fb = 0 THEN DefaultBuffer(GL_STENCIL_ATTACHMENT)
    ELSE attachments[fb][GL_STENCIL_ATTACHMENT]

\* The attach functions do not check the format of what they attach: the
\* renderbuffers here have a depth-stencil format and the textures a color format.
Renderable(point, image) ==
    IF point \in {GL_DEPTH_ATTACHMENT, GL_STENCIL_ATTACHMENT}
        THEN image.kind = "renderbuffer"
        ELSE image.kind = "texture"

\* glCheckFramebufferStatus = GL_FRAMEBUFFER_COMPLETE: something is attached and
\* everything attached is renderable at its point.  The default one is complete.
FramebufferComplete(fb) ==
    \/ fb = 0
    \/ /\ \E p \in AttachmentPoints : attachments[fb][p] # NoAttachment
       /\ \A p \in AttachmentPoints :
            attachments[fb][p] # NoAttachment => Renderable(p, attachments[fb][p])

\* A write of `new` under a per-channel color mask, and under a stencil bit mask.
MaskedColor(old, new, mask) == [i \in 1..4 |-> IF mask[i] THEN new[i] ELSE old[i]]
RECURSIVE MergeBits(_, _, _, _)
MergeBits(old, new, mask, bits) ==
    IF bits = 0 THEN 0
    ELSE (IF mask % 2 = 1 THEN new % 2 ELSE old % 2)
            + 2 * MergeBits(old \div 2, new \div 2, mask \div 2, bits - 1)
MaskedStencil(old, new, mask) ==
    IF mask % 2^StencilBits = 2^StencilBits - 1 THEN new % 2^StencilBits
    ELSE IF mask % 2^StencilBits = 0 \/ old = Undefined THEN old
    ELSE MergeBits(old, new, mask, StencilBits)

\* glClear(bits) with framebuffer fb bound for drawing: every pixel of the buffers
\* named in bits takes the clear value, as far as the write masks allow (the
\* stencil clear uses the front mask).  An incomplete framebuffer is not written.
glClear(c, fb, bits) ==
    IF ~FramebufferComplete(fb) THEN c
    ELSE
        LET color == IF HasBit(bits, GL_COLOR_BUFFER_BIT) THEN ColorBuffersOf(fb) ELSE {}
            depth == IF HasBit(bits, GL_DEPTH_BUFFER_BIT)
                        THEN {DepthBufferOf(fb)} \ {NoAttachment} ELSE {}
            stencil == IF HasBit(bits, GL_STENCIL_BUFFER_BIT)
                        THEN {StencilBufferOf(fb)} \ {NoAttachment} ELSE {}
        IN [image \in DOMAIN c \cup color \cup depth \cup stencil |->
              LET old == ImageOf(c, image) IN
              [color |-> IF image \in color
                            THEN [px \in Pixels |->
                                    MaskedColor(old.color[px], clearValues.color,
                                                writeMasks.color)]
                            ELSE old.color,
               depth |-> IF image \in depth /\ writeMasks.depth
                            THEN [px \in Pixels |-> clearValues.depth]
                            ELSE old.depth,
               stencil |-> IF image \in stencil
                            THEN [px \in Pixels |->
                                    MaskedStencil(old.stencil[px], clearValues.stencil,
                                                  writeMasks.front)]
                            ELSE old.stencil]]

glClearError(fb) ==
    IF FramebufferComplete(fb) THEN "GL_NO_ERROR" ELSE "GL_INVALID_FRAMEBUFFER_OPERATION"

\* glDrawBuffers on framebuffer fb: every entry is GL_NONE or a color buffer the
\* framebuffer can have, and none but GL_NONE is named twice; otherwise the call
\* raises an error and leaves the draw mapping as it was.
DrawBuffersValid(fb, bufs) ==
    /\ \A i \in DOMAIN bufs :
        \/ bufs[i] = GL_NONE
        \/ IF fb = 0 THEN bufs[i] \in DefaultColorBuffers
           ELSE bufs[i] \in {GL_COLOR_ATTACHMENT0 + k : k \in 0..MaxColorAttachmentId}
    /\ \A i, j \in DOMAIN bufs : i # j /\ bufs[i] = bufs[j] => bufs[i] = GL_NONE
glDrawBuffers(db, fb, bufs) ==
    IF DrawBuffersValid(fb, bufs) THEN [db EXCEPT ![fb] = bufs] ELSE db
glDrawBuffersError(fb, bufs) ==
    IF DrawBuffersValid(fb, bufs) THEN "GL_NO_ERROR" ELSE "GL_INVALID_OPERATION"

\* glReadBuffer on framebuffer fb: a color attachment of a framebuffer object, a
\* buffer the window has for the default one.
ReadBufferValid(fb, buffer) ==
    IF fb = 0
        THEN buffer \in {GL_FRONT_LEFT, GL_BACK_LEFT, GL_LEFT, GL_FRONT, GL_BACK,
                         GL_FRONT_AND_BACK}
        ELSE buffer \in {GL_COLOR_ATTACHMENT0 + k : k \in 0..MaxColorAttachmentId}
glReadBuffer(rb, fb, buffer) ==
    IF ReadBufferValid(fb, buffer) THEN [rb EXCEPT ![fb] = buffer] ELSE rb
glReadBufferError(fb, buffer) ==
    IF ReadBufferValid(fb, buffer) THEN "GL_NO_ERROR" ELSE "GL_INVALID_OPERATION"

\* The image reads and blits of framebuffer fb take the color from: what its
\* read mapping selects (NoAttachment if that is nothing).
ReadColorBufferOf(fb) ==
    IF fb = 0
        THEN IF readBuffer[fb] \in {GL_BACK_LEFT, GL_BACK}
                THEN DefaultBuffer(GL_BACK_LEFT) ELSE DefaultBuffer(GL_FRONT_LEFT)
    ELSE IF readBuffer[fb] \in AttachmentPoints THEN attachments[fb][readBuffer[fb]]
    ELSE NoAttachment

\* Division rounding down, for a divisor of either sign.
FloorDiv(n, d) == IF d > 0 THEN n \div d ELSE (0 - n) \div (0 - d)
Min(a, b) == IF a < b THEN a ELSE b
Max(a, b) == IF a > b THEN a ELSE b
\* The pixels of an image inside the rectangle with corners p0 and p1.
InRect(px, p0, p1) ==
    /\ Min(p0[1], p1[1]) <= px[1] /\ px[1] < Max(p0[1], p1[1])
    /\ Min(p0[2], p1[2]) <= px[2] /\ px[2] < Max(p0[2], p1[2])
\* The source pixel whose value the centre of destination pixel px takes when
\* the rectangle (s0, s1) is mapped onto (d0, d1): along each axis the centre is
\* carried over in proportion, which mirrors a rectangle with swapped corners.
SourcePixel(px, s0, s1, d0, d1) ==
    [i \in 1..2 |->
        s0[i] + FloorDiv((2 * (px[i] - d0[i]) + 1) * (s1[i] - s0[i]),
                         2 * (d1[i] - d0[i]))]
\* The neighbour of a source pixel that linear filtering mixes in when the
\* rectangles differ in size.
Neighbour(px, s0, s1) ==
    [i \in 1..2 |-> Min(px[i] + 1, Max(s0[i], s1[i]) - 1)]
Mix(a, b) == IF a = Undefined \/ b = Undefined THEN Undefined ELSE (a + b) \div 2
SameSize(s0, s1, d0, d1) == \A i \in 1..2 : s1[i] - s0[i] = d1[i] - d0[i]

\* One plane copied by glBlitFramebuffer: the plane of the destination image
\* after pixels of `source` (a plane of another or of the same image) are
\* written into the destination rectangle.  A destination pixel whose source
\* falls outside the image is left alone.
BlitPlane(old, source, s0, s1, d0, d1, linear, isColor) ==
    [px \in Pixels |->
        IF ~InRect(px, d0, d1) THEN old[px]
        ELSE
            LET sp == SourcePixel(px, s0, s1, d0, d1)
                np == Neighbour(sp, s0, s1)
            IN  IF <<sp[1], sp[2]>> \notin Pixels THEN old[px]
                ELSE IF ~linear \/ <<np[1], np[2]>> \notin Pixels
                    THEN source[<<sp[1], sp[2]>>]
                ELSE IF isColor
                    THEN [i \in 1..4 |-> Mix(source[<<sp[1], sp[2]>>][i],
                                             source[<<np[1], np[2]>>][i])]
                ELSE Mix(source[<<sp[1], sp[2]>>], source[<<np[1], np[2]>>])]

\* glBlitFramebuffer refuses incomplete framebuffers, and a linear filter for
\* depth or stencil.
glBlitFramebufferError(read, draw, mask, filter) ==
    IF ~FramebufferComplete(read) \/ ~FramebufferComplete(draw)
        THEN "GL_INVALID_FRAMEBUFFER_OPERATION"
    ELSE IF filter = GL_LINEAR
            /\ (HasBit(mask, GL_DEPTH_BUFFER_BIT) \/ HasBit(mask, GL_STENCIL_BUFFER_BIT))
        THEN "GL_INVALID_OPERATION"
    ELSE "GL_NO_ERROR"

\* glBlitFramebuffer: the planes named in mask go from the read color buffer,
\* the depth and the stencil buffer of framebuffer `read` to every mapped color
\* buffer, the depth and the stencil buffer of framebuffer `draw`.  The source
\* rectangle has the corners (srcX0, srcY0) and (srcX1, srcY1), the destination
\* rectangle the corners (dstX0, dstY0) and (dstX1, dstY1).
glBlitFramebuffer(c, read, draw, srcX0, srcY0, srcX1, srcY1, dstX0, dstY0, dstX1, dstY1, mask, filter) ==
    IF glBlitFramebufferError(read, draw, mask, filter) # "GL_NO_ERROR" THEN c
    ELSE
        LET s0 == <<srcX0, srcY0>>
            s1 == <<srcX1, srcY1>>
            d0 == <<dstX0, dstY0>>
            d1 == <<dstX1, dstY1>>
            linear == filter = GL_LINEAR /\ ~SameSize(s0, s1, d0, d1)
            colorSource == ReadColorBufferOf(read)
            depthSource == DepthBufferOf(read)
            stencilSource == StencilBufferOf(read)
            color == IF HasBit(mask, GL_COLOR_BUFFER_BIT) /\ colorSource # NoAttachment
                        THEN ColorBuffersOf(draw) ELSE {}
            depth == IF HasBit(mask, GL_DEPTH_BUFFER_BIT) /\ depthSource # NoAttachment
                        THEN {DepthBufferOf(draw)} \ {NoAttachment} ELSE {}
            stencil == IF HasBit(mask, GL_STENCIL_BUFFER_BIT)
                            /\ stencilSource # NoAttachment
                        THEN {StencilBufferOf(draw)} \ {NoAttachment} ELSE {}
        IN [img \in DOMAIN c \cup color \cup depth \cup stencil |->
              LET old == ImageOf(c, img) IN
              [color |-> IF img \in color
                            THEN BlitPlane(old.color, ImageOf(c, colorSource).color,
                                           s0, s1, d0, d1, linear, TRUE)
                            ELSE old.color,
               depth |-> IF img \in depth
                            THEN BlitPlane(old.depth, ImageOf(c, depthSource).depth,
                                           s0, s1, d0, d1, FALSE, FALSE)
                            ELSE old.depth,
               stencil |-> IF img \in stencil
                            THEN BlitPlane(old.stencil, ImageOf(c, stencilSource).stencil,
                                           s0, s1, d0, d1, FALSE, FALSE)
                            ELSE old.stencil]]

\* glReadPixels: the color of the pixels offset .. offset + dimensions of the
\* read color buffer of framebuffer fb, row by row; a pixel outside the buffer
\* is undefined.  An incomplete framebuffer is not read.
glReadPixels(c, fb, offset, dimensions) ==
    LET source == ImageOf(c, ReadColorBufferOf(fb)).color IN
    [p \in (0..(dimensions[1] - 1)) \X (0..(dimensions[2] - 1)) |->
        LET px == <<offset[1] + p[1], offset[2] + p[2]>> IN
        IF px \in Pixels THEN source[px] ELSE BlankImage.color[<<0, 0>>]]
glReadPixelsError(fb) ==
    IF FramebufferComplete(fb) THEN "GL_NO_ERROR" ELSE "GL_INVALID_FRAMEBUFFER_OPERATION"

\* static ClearMask clearMask before any setFeature call: no test is enabled, so
\* the no-argument clear() clears the color buffer only.
InitialClearMask == GL_COLOR_BUFFER_BIT

(***************************************************************************)
(* Framebuffer creation and binding.                                       *)
(***************************************************************************)
\* The mappings of a framebuffer nobody mapped yet: color attachment 0 of a
\* framebuffer object, the back buffer of the (double-buffered) default one.
InitialDrawBuffers(h) == IF h = 0 THEN <<GL_BACK_LEFT>> ELSE <<GL_COLOR_ATTACHMENT0>>
InitialReadBuffer(h) == IF h = 0 THEN GL_BACK_LEFT ELSE GL_COLOR_ATTACHMENT0

\* The record of a call: the operation, the object it is called on (0 for a
\* static function), its target, and its other arguments in order.
Called(op, fb, target, args) == [op |-> op, fb |-> fb, target |-> target, args |-> args]

\* The blend state of a new context: Framebuffer.h documents BlendEquation::Add
\* as the initial equation, BlendFunction::One as the initial source factor
\* and BlendFunction::Zero as the initial destination factor; the blend color
\* of a new context is transparent black.
InitialBlending ==
    [equationRgb |-> GL_FUNC_ADD, equationAlpha |-> GL_FUNC_ADD,
     sourceRgb |-> GL_ONE, destinationRgb |-> GL_ZERO,
     sourceAlpha |-> GL_ONE, destinationAlpha |-> GL_ZERO,
     color |-> <<0, 0, 0, 0>>]

\* The viewport of a new context covers the window.
InitialViewport == [position |-> <<0, 0>>, size |-> <<Width, Height>>]

\* The threads that call into the one context, and the marker of a thread
\* that is between two calls.
Threads == {1, 2}
NoCall == [op |-> "none"]

\* No thread is in the middle of a call, and the callers do not serialize
\* their calls.
InitialThreads == [serialized |-> FALSE, pending |-> [t \in Threads |-> NoCall]]


\* A context that starts with the depth test enabled and clear() clearing
\* depth as well.
Init_DepthTestEnabled ==
    /\ alive = Handles
    /\ names = Handles
    /\ readFb = 0
    /\ drawFb = 0
    /\ attachments = [h \in Handles |-> EmptyAttachments]
    /\ drawBuffers = [h \in Handles \cup {0} |-> InitialDrawBuffers(h)]
    /\ readBuffer = [h \in Handles \cup {0} |-> InitialReadBuffer(h)]
    /\ enabled = {GL_DITHER, GL_DEPTH_TEST}
    /\ clearMask = GL_COLOR_BUFFER_BIT + GL_DEPTH_BUFFER_BIT
    /\ clearValues = [color |-> <<0, 0, 0, One>>, depth |-> One, stencil |-> 0]
    /\ writeMasks = [color |-> <<TRUE, TRUE, TRUE, TRUE>>, depth |-> TRUE,
                     front |-> AllBits, back |-> AllBits]
    /\ content = <<>>
    /\ image2D = [dimensions |-> <<0, 0>>, data |-> <<>>]
    /\ glError = "GL_NO_ERROR"
    /\ attachCalls = 0
    /\ clearCalls = 0
    /\ transferCalls = 0
    /\ blending = InitialBlending
    /\ viewport = InitialViewport
    /\ threads = InitialThreads
    /\ call = Called("none", 0, GL_NONE, <<>>)

Init ==
    /\ alive = Handles
    /\ names = Handles
    /\ readFb = 0
    /\ drawFb = 0
    /\ attachments = [h \in Handles |-> EmptyAttachments]
    /\ drawBuffers = [h \in Handles \cup {0} |-> InitialDrawBuffers(h)]
    /\ readBuffer = [h \in Handles \cup {0} |-> InitialReadBuffer(h)]
    /\ enabled = {GL_DITHER}
    /\ clearMask = InitialClearMask
    /\ clearValues = [color |-> <<0, 0, 0, One>>, depth |-> One, stencil |-> 0]
    /\ writeMasks = [color |-> <<TRUE, TRUE, TRUE, TRUE>>, depth |-> TRUE,
                     front |-> AllBits, back |-> AllBits]
    /\ content = <<>>
    /\ image2D = [dimensions |-> <<0, 0>>, data |-> <<>>]
    /\ glError = "GL_NO_ERROR"
    /\ attachCalls = 0
    /\ clearCalls = 0
    /\ transferCalls = 0
    /\ blending = InitialBlending
    /\ viewport = InitialViewport
    /\ threads = InitialThreads
    /\ call = Called("none", 0, GL_NONE, <<>>)

\* Framebuffer(): glGenFramebuffers hands out a name the context does not have
\* in use, and the object keeps it in its field `framebuffer`.
Constructor(fb) ==
    /\ fb \in Handles \ names
    /\ names' = names \cup {fb}
    /\ alive' = alive \cup {fb}
    /\ UNCHANGED <<blending, viewport, threads>>
    /\ call' = Called("Framebuffer", fb, GL_NONE, <<>>)
    /\ UNCHANGED <<readFb, drawFb, attachments, drawBuffers, readBuffer, pipelineVars,
                   content, image2D, glError, counters>>

\* A delete that leaves the binding points alone.
glDeleteFramebuffersBindings_Dangling(b, fb) == b

\* glDeleteFramebuffers: the object and its attachments are gone, and a binding
\* point it was bound to reverts to the default framebuffer.
glDeleteFramebuffersBindings(b, fb) ==
    [read |-> IF b.read = fb THEN 0 ELSE b.read,
     draw |-> IF b.draw = fb THEN 0 ELSE b.draw]

\* A destructor that binds the default framebuffer to both roles first.
Destructor_Unbinds(fb) ==
    /\ fb \in alive
    /\ names' = names \ {fb}
    /\ alive' = alive \ {fb}
    /\ UNCHANGED <<blending, viewport, threads>>
    /\ call' = Called("~Framebuffer", fb, GL_NONE, <<>>)
    /\ readFb' = 0
    /\ drawFb' = 0
    /\ attachments' = [attachments EXCEPT ![fb] = EmptyAttachments]
    /\ drawBuffers' = [drawBuffers EXCEPT ![fb] = InitialDrawBuffers(fb)]
    /\ readBuffer' = [readBuffer EXCEPT ![fb] = InitialReadBuffer(fb)]
    /\ UNCHANGED <<pipelineVars, content, image2D, glError, counters>>

\* The destructor of a copy of object fb, had the class a copy constructor: the
\* name is deleted and the object copied from lives on with it.
Destructor_OfCopy(fb) ==
    /\ fb \in alive
    /\ names' = names \ {fb}
    /\ UNCHANGED alive
    /\ UNCHANGED <<blending, viewport, threads>>
    /\ call' = Called("~Framebuffer", fb, GL_NONE, <<>>)
    /\ readFb' = glDeleteFramebuffersBindings(Bindings, fb).read
    /\ drawFb' = glDeleteFramebuffersBindings(Bindings, fb).draw
    /\ attachments' = [attachments EXCEPT ![fb] = EmptyAttachments]
    /\ drawBuffers' = [drawBuffers EXCEPT ![fb] = InitialDrawBuffers(fb)]
    /\ readBuffer' = [readBuffer EXCEPT ![fb] = InitialReadBuffer(fb)]
    /\ UNCHANGED <<pipelineVars, content, image2D, glError, counters>>

\* ~Framebuffer(): glDeleteFramebuffers on the name the object holds.
Destructor(fb) ==
    /\ fb \in alive
    /\ names' = names \ {fb}
    /\ alive' = alive \ {fb}
    /\ UNCHANGED <<blending, viewport, threads>>
    /\ call' = Called("~Framebuffer", fb, GL_NONE, <<>>)
    /\ readFb' = glDeleteFramebuffersBindings(Bindings, fb).read
    /\ drawFb' = glDeleteFramebuffersBindings(Bindings, fb).draw
    /\ attachments' = [attachments EXCEPT ![fb] = EmptyAttachments]
    /\ drawBuffers' = [drawBuffers EXCEPT ![fb] = InitialDrawBuffers(fb)]
    /\ readBuffer' = [readBuffer EXCEPT ![fb] = InitialReadBuffer(fb)]
    /\ UNCHANGED <<pipelineVars, content, image2D, glError, counters>>

\* A bindDefault that binds the other binding point.
bindDefault_OtherTarget(target) ==
    LET other == IF target = GL_READ_FRAMEBUFFER THEN GL_DRAW_FRAMEBUFFER
                 ELSE GL_READ_FRAMEBUFFER IN
    /\ readFb' = glBindFramebuffer(Bindings, other, 0).read
    /\ drawFb' = glBindFramebuffer(Bindings, other, 0).draw
    /\ UNCHANGED <<blending, viewport, threads, names>>
    /\ call' = Called("bindDefault", 0, target, <<>>)
    /\ UNCHANGED <<objectVars, pipelineVars, content, image2D, glError, counters>>

\* static bindDefault(target)
bindDefault(target) ==
    /\ readFb' = glBindFramebuffer(Bindings, target, 0).read
    /\ drawFb' = glBindFramebuffer(Bindings, target, 0).draw
    /\ UNCHANGED <<blending, viewport, threads, names>>
    /\ call' = Called("bindDefault", 0, target, <<>>)
    /\ UNCHANGED <<objectVars, pipelineVars, content, image2D, glError, counters>>

\* A bind that ignores its target and binds for reading and drawing.
bind_BothTargets(fb, target) ==
    /\ fb \in alive
    /\ readFb' = fb
    /\ drawFb' = fb
    /\ UNCHANGED <<blending, viewport, threads, names>>
    /\ call' = Called("bind", fb, target, <<>>)
    /\ UNCHANGED <<objectVars, pipelineVars, content, image2D, glError, counters>>

\* A bind that gives the framebuffer the mappings of a new one.
bind_ResetsMappings(fb, target) ==
    /\ fb \in alive
    /\ readFb' = glBindFramebuffer(Bindings, target, fb).read
    /\ drawFb' = glBindFramebuffer(Bindings, target, fb).draw
    /\ drawBuffers' = [drawBuffers EXCEPT ![fb] = InitialDrawBuffers(fb)]
    /\ readBuffer' = [readBuffer EXCEPT ![fb] = InitialReadBuffer(fb)]
    /\ UNCHANGED <<blending, viewport, threads, names>>
    /\ call' = Called("bind", fb, target, <<>>)
    /\ UNCHANGED <<alive, attachments, pipelineVars, content, image2D, glError, counters>>

\* A bind that treats Target::ReadDraw as Target::Read.
bind_ReadDrawAsRead(fb, target) ==
    LET t == IF target = GL_FRAMEBUFFER THEN GL_READ_FRAMEBUFFER ELSE target IN
    /\ fb \in alive
    /\ readFb' = glBindFramebuffer(Bindings, t, fb).read
    /\ drawFb' = glBindFramebuffer(Bindings, t, fb).draw
    /\ UNCHANGED <<blending, viewport, threads, names>>
    /\ call' = Called("bind", fb, target, <<>>)
    /\ UNCHANGED <<objectVars, pipelineVars, content, image2D, glError, counters>>

\* bind(target)
bind(fb, target) ==
    /\ fb \in alive
    /\ readFb' = glBindFramebuffer(Bindings, target, fb).read
    /\ drawFb' = glBindFramebuffer(Bindings, target, fb).draw
    /\ UNCHANGED <<blending, viewport, threads, names>>
    /\ call' = Called("bind", fb, target, <<>>)
    /\ UNCHANGED <<objectVars, pipelineVars, content, image2D, glError, counters>>

(***************************************************************************)
(* Pipeline state and clearing.                                            *)
(***************************************************************************)
\* A setFeature that enables a feature the first time it is asked to and
\* disables it again the second time.
setFeature_Toggling(feature, enable) ==
    LET on == IF enable THEN feature \notin enabled ELSE FALSE IN
    /\ enabled' = IF on THEN enabled \cup {feature} ELSE enabled \ {feature}
    /\ clearMask' =
        IF feature = GL_DEPTH_TEST
            THEN IF on THEN WithBit(clearMask, GL_DEPTH_BUFFER_BIT)
                 ELSE WithoutBit(clearMask, GL_DEPTH_BUFFER_BIT)
        ELSE IF feature = GL_STENCIL_TEST
            THEN IF on THEN WithBit(clearMask, GL_STENCIL_BUFFER_BIT)
                 ELSE WithoutBit(clearMask, GL_STENCIL_BUFFER_BIT)
        ELSE clearMask
    /\ UNCHANGED <<blending, viewport, threads, names>>
    /\ call' = Called("setFeature", 0, GL_NONE, <<feature, enable>>)
    /\ UNCHANGED <<objectVars, bindingVars, clearValues, writeMasks, content, image2D,
                   glError, counters>>

\* static setFeature(feature, enabled), declared only: glEnable / glDisable, and
\* for the depth and the stencil test the matching bit of clearMask follows the
\* feature ("If depth or stencil test is not enabled, it doesn't clear these
\* buffers").
setFeature(feature, enable) ==
    /\ enabled' = IF enable THEN enabled \cup {feature} ELSE enabled \ {feature}
    /\ clearMask' =
        IF feature = GL_DEPTH_TEST
            THEN IF enable THEN WithBit(clearMask, GL_DEPTH_BUFFER_BIT)
                 ELSE WithoutBit(clearMask, GL_DEPTH_BUFFER_BIT)
        ELSE IF feature = GL_STENCIL_TEST
            THEN IF enable THEN WithBit(clearMask, GL_STENCIL_BUFFER_BIT)
                 ELSE WithoutBit(clearMask, GL_STENCIL_BUFFER_BIT)
        ELSE clearMask
    /\ UNCHANGED <<blending, viewport, threads, names>>
    /\ call' = Called("setFeature", 0, GL_NONE, <<feature, enable>>)
    /\ UNCHANGED <<objectVars, bindingVars, clearValues, writeMasks, content, image2D,
                   glError, counters>>

\* A clear() that clears every buffer whatever the static mask says.
clear_AllBuffers ==
    /\ clearCalls < MaxClearCalls
    /\ clearCalls' = clearCalls + 1
    /\ content' = glClear(content, drawFb,
                          GL_COLOR_BUFFER_BIT + GL_DEPTH_BUFFER_BIT + GL_STENCIL_BUFFER_BIT)
    /\ glError' = RaiseError(glError, glClearError(drawFb))
    /\ UNCHANGED <<blending, viewport, threads, names>>
    /\ call' = Called("clear", 0, GL_NONE, <<>>)
    /\ UNCHANGED <<objectVars, bindingVars, pipelineVars, image2D, attachCalls,
                   transferCalls>>

\* A clear() that clears the framebuffer bound for reading.
clear_ReadBound ==
    /\ clearCalls < MaxClearCalls
    /\ clearCalls' = clearCalls + 1
    /\ content' = glClear(content, readFb, clearMask)
    /\ glError' = RaiseError(glError, glClearError(readFb))
    /\ UNCHANGED <<blending, viewport, threads, names>>
    /\ call' = Called("clear", 0, GL_NONE, <<>>)
    /\ UNCHANGED <<objectVars, bindingVars, pipelineVars, image2D, attachCalls,
                   transferCalls>>

\* static clear()
clear ==
    /\ clearCalls < MaxClearCalls
    /\ clearCalls' = clearCalls + 1
    /\ content' = glClear(content, drawFb, clearMask)
    /\ glError' = RaiseError(glError, glClearError(drawFb))
    /\ UNCHANGED <<blending, viewport, threads, names>>
    /\ call' = Called("clear", 0, GL_NONE, <<>>)
    /\ UNCHANGED <<objectVars, bindingVars, pipelineVars, image2D, attachCalls,
                   transferCalls>>

\* A clear(mask) that clears what the static mask names as well, and keeps the
\* union as the static mask.
clearWithMask_Sticky(mask) ==
    LET union == WithBitsOf(clearMask, mask) IN
    /\ clearCalls < MaxClearCalls
    /\ clearCalls' = clearCalls + 1
    /\ content' = glClear(content, drawFb, union)
    /\ clearMask' = union
    /\ glError' = RaiseError(glError, glClearError(drawFb))
    /\ UNCHANGED <<blending, viewport, threads, names>>
    /\ call' = Called("clearWithMask", 0, GL_NONE, <<mask>>)
    /\ UNCHANGED <<objectVars, bindingVars, enabled, clearValues, writeMasks, image2D,
                   attachCalls, transferCalls>>

\* static clear(ClearMask mask)
clearWithMask(mask) ==
    /\ clearCalls < MaxClearCalls
    /\ clearCalls' = clearCalls + 1
    /\ content' = glClear(content, drawFb, mask)
    /\ glError' = RaiseError(glError, glClearError(drawFb))
    /\ UNCHANGED <<blending, viewport, threads, names>>
    /\ call' = Called("clearWithMask", 0, GL_NONE, <<mask>>)
    /\ UNCHANGED <<objectVars, bindingVars, pipelineVars, image2D, attachCalls,
                   transferCalls>>

\* static setClearColor(color): glClearColor
setClearColor(color) ==
    /\ clearValues' = [clearValues EXCEPT !.color = color]
    /\ UNCHANGED <<blending, viewport, threads, names>>
    /\ call' = Called("setClearColor", 0, GL_NONE, <<color>>)
    /\ UNCHANGED <<objectVars, bindingVars, enabled, clearMask, writeMasks, content, image2D,
                   glError, counters>>

\* static setClearDepth(depth): glClearDepth clamps the value to [0, 1].
setClearDepth(depth) ==
    /\ clearValues' = [clearValues EXCEPT
                        !.depth = IF depth < 0 THEN 0 ELSE IF depth > One THEN One ELSE depth]
    /\ UNCHANGED <<blending, viewport, threads, names>>
    /\ call' = Called("setClearDepth", 0, GL_NONE, <<depth>>)
    /\ UNCHANGED <<objectVars, bindingVars, enabled, clearMask, writeMasks, content, image2D,
                   glError, counters>>

\* static setClearStencil(stencil): glClearStencil
setClearStencil(stencil) ==
    /\ clearValues' = [clearValues EXCEPT !.stencil = stencil]
    /\ UNCHANGED <<blending, viewport, threads, names>>
    /\ call' = Called("setClearStencil", 0, GL_NONE, <<stencil>>)
    /\ UNCHANGED <<objectVars, bindingVars, enabled, clearMask, writeMasks, content, image2D,
                   glError, counters>>

\* static setColorMask(allowRed, allowGreen, allowBlue, allowAlpha): glColorMask
setColorMask(allowRed, allowGreen, allowBlue, allowAlpha) ==
    /\ writeMasks' = [writeMasks EXCEPT
                        !.color = <<allowRed, allowGreen, allowBlue, allowAlpha>>]
    /\ UNCHANGED <<blending, viewport, threads, names>>
    /\ call' = Called("setColorMask", 0, GL_NONE,
                      <<allowRed, allowGreen, allowBlue, allowAlpha>>)
    /\ UNCHANGED <<objectVars, bindingVars, enabled, clearMask, clearValues, content,
                   image2D, glError, counters>>

\* static setDepthMask(allow): glDepthMask
setDepthMask(allow) ==
    /\ writeMasks' = [writeMasks EXCEPT !.depth = allow]
    /\ UNCHANGED <<blending, viewport, threads, names>>
    /\ call' = Called("setDepthMask", 0, GL_NONE, <<allow>>)
    /\ UNCHANGED <<objectVars, bindingVars, enabled, clearMask, clearValues, content,
                   image2D, glError, counters>>

\* static setStencilMask(allowBits): glStencilMask sets the front and the back
\* mask.  Of the GLuint the bits a stencil buffer has are kept.
setStencilMask(allowBits) ==
    /\ writeMasks' = [writeMasks EXCEPT !.front = allowBits % 2^StencilBits,
                                        !.back = allowBits % 2^StencilBits]
    /\ UNCHANGED <<blending, viewport, threads, names>>
    /\ call' = Called("setStencilMask", 0, GL_NONE, <<allowBits>>)
    /\ UNCHANGED <<objectVars, bindingVars, enabled, clearMask, clearValues, content,
                   image2D, glError, counters>>

\* A setStencilMask(face, allowBits) that calls glStencilMask, which takes no face.
setStencilMaskFace_BothFaces(face, allowBits) ==
    /\ writeMasks' = [writeMasks EXCEPT !.front = allowBits % 2^StencilBits,
                                        !.back = allowBits % 2^StencilBits]
    /\ UNCHANGED <<blending, viewport, threads, names>>
    /\ call' = Called("setStencilMaskFace", 0, GL_NONE, <<face, allowBits>>)
    /\ UNCHANGED <<objectVars, bindingVars, enabled, clearMask, clearValues, content,
                   image2D, glError, counters>>

\* static setStencilMask(face, allowBits): glStencilMaskSeparate sets the mask
\* of the faces named.
setStencilMaskFace(face, allowBits) ==
    /\ writeMasks' = [writeMasks EXCEPT
                        !.front = IF face \in {GL_FRONT, GL_FRONT_AND_BACK}
                                    THEN allowBits % 2^StencilBits ELSE @,
                        !.back = IF face \in {GL_BACK, GL_FRONT_AND_BACK}
                                    THEN allowBits % 2^StencilBits ELSE @]
    /\ UNCHANGED <<blending, viewport, threads, names>>
    /\ call' = Called("setStencilMaskFace", 0, GL_NONE, <<face, allowBits>>)
    /\ UNCHANGED <<objectVars, bindingVars, enabled, clearMask, clearValues, content,
                   image2D, glError, counters>>

\* static setBlendEquation(equation): glBlendEquation sets the RGB and the alpha
\* equation.
setBlendEquation(equation) ==
    /\ blending' = [blending EXCEPT !.equationRgb = equation, !.equationAlpha = equation]
    /\ UNCHANGED <<viewport, threads, names>>
    /\ call' = Called("setBlendEquation", 0, GL_NONE, <<equation>>)
    /\ UNCHANGED <<objectVars, bindingVars, pipelineVars, content, image2D, glError,
                   counters>>

\* static setBlendEquation(rgb, alpha): glBlendEquationSeparate
setBlendEquationSeparate(rgb, alpha) ==
    /\ blending' = [blending EXCEPT !.equationRgb = rgb, !.equationAlpha = alpha]
    /\ UNCHANGED <<viewport, threads, names>>
    /\ call' = Called("setBlendEquationSeparate", 0, GL_NONE, <<rgb, alpha>>)
    /\ UNCHANGED <<objectVars, bindingVars, pipelineVars, content, image2D, glError,
                   counters>>

\* static setBlendFunction(source, destination): glBlendFunc sets the RGB and the
\* alpha factors.
setBlendFunction(source, destination) ==
    /\ blending' = [blending EXCEPT !.sourceRgb = source, !.destinationRgb = destination,
                                    !.sourceAlpha = source,
                                    !.destinationAlpha = destination]
    /\ UNCHANGED <<viewport, threads, names>>
    /\ call' = Called("setBlendFunction", 0, GL_NONE, <<source, destination>>)
    /\ UNCHANGED <<objectVars, bindingVars, pipelineVars, content, image2D, glError,
                   counters>>

\* static setBlendFunction(sourceRgb, destinationRgb, sourceAlpha,
\* destinationAlpha): glBlendFuncSeparate
setBlendFunctionSeparate(sourceRgb, destinationRgb, sourceAlpha, destinationAlpha) ==
    /\ blending' = [blending EXCEPT !.sourceRgb = sourceRgb,
                                    !.destinationRgb = destinationRgb,
                                    !.sourceAlpha = sourceAlpha,
                                    !.destinationAlpha = destinationAlpha]
    /\ UNCHANGED <<viewport, threads, names>>
    /\ call' = Called("setBlendFunctionSeparate", 0, GL_NONE,
                      <<sourceRgb, destinationRgb, sourceAlpha, destinationAlpha>>)
    /\ UNCHANGED <<objectVars, bindingVars, pipelineVars, content, image2D, glError,
                   counters>>

\* static setBlendColor(color): glBlendColor
setBlendColor(color) ==
    /\ blending' = [blending EXCEPT !.color = color]
    /\ UNCHANGED <<viewport, threads, names>>
    /\ call' = Called("setBlendColor", 0, GL_NONE, <<color>>)
    /\ UNCHANGED <<objectVars, bindingVars, pipelineVars, content, image2D, glError,
                   counters>>

\* static setViewport(position, size), declared only: glViewport, which refuses
\* a negative width or height and leaves the viewport as it was.
setViewport(position, size) ==
    LET valid == size[1] >= 0 /\ size[2] >= 0 IN
    /\ viewport' = IF valid THEN [position |-> position, size |-> size] ELSE viewport
    /\ glError' = RaiseError(glError, IF valid THEN "GL_NO_ERROR" ELSE "GL_INVALID_VALUE")
    /\ UNCHANGED <<blending, threads, names>>
    /\ call' = Called("setViewport", 0, GL_NONE, <<position, size>>)
    /\ UNCHANGED <<objectVars, bindingVars, pipelineVars, content, image2D, counters>>

(***************************************************************************)
(* Draw and read mapping.  Every map function binds first, like attach.    *)
(***************************************************************************)
\* static mapDefaultForDraw(attachments), declared only: bindDefault(Target::Draw),
\* then glDrawBuffers with the attachments in order.
mapDefaultForDraw(defaultAttachments) ==
    LET b == glBindFramebuffer(Bindings, GL_DRAW_FRAMEBUFFER, 0) IN
    /\ readFb' = b.read
    /\ drawFb' = b.draw
    /\ drawBuffers' = glDrawBuffers(drawBuffers, b.draw, defaultAttachments)
    /\ glError' = RaiseError(glError, glDrawBuffersError(b.draw, defaultAttachments))
    /\ UNCHANGED <<blending, viewport, threads, names>>
    /\ call' = Called("mapDefaultForDraw", 0, GL_DRAW_FRAMEBUFFER, <<defaultAttachments>>)
    /\ UNCHANGED <<alive, attachments, readBuffer, pipelineVars, content, image2D,
                   counters>>

\* A mapForDraw that leaves out the entries of -1, which moves the later
\* entries to earlier outputs.
mapForDraw_Compacting(fb, colorAttachments) ==
    LET b == glBindFramebuffer(Bindings, GL_DRAW_FRAMEBUFFER, fb)
        used == SelectSeq(colorAttachments, LAMBDA a : a # -1)
        bufs == [i \in DOMAIN used |-> GL_COLOR_ATTACHMENT0 + used[i]]
    IN
    /\ fb \in alive
    /\ readFb' = b.read
    /\ drawFb' = b.draw
    /\ drawBuffers' = glDrawBuffers(drawBuffers, b.draw, bufs)
    /\ glError' = RaiseError(glError, glDrawBuffersError(b.draw, bufs))
    /\ UNCHANGED <<blending, viewport, threads, names>>
    /\ call' = Called("mapForDraw", fb, GL_DRAW_FRAMEBUFFER, <<colorAttachments>>)
    /\ UNCHANGED <<alive, attachments, readBuffer, pipelineVars, content, image2D,
                   counters>>

\* A mapForDraw without its bind(Target::Draw): glDrawBuffers addresses
\* whichever framebuffer is Draw-bound at the time.
mapForDraw_WithoutBind(fb, colorAttachments) ==
    LET bufs == [i \in DOMAIN colorAttachments |->
                    IF colorAttachments[i] = -1 THEN GL_NONE
                    ELSE GL_COLOR_ATTACHMENT0 + colorAttachments[i]]
    IN
    /\ fb \in alive
    /\ drawBuffers' = glDrawBuffers(drawBuffers, drawFb, bufs)
    /\ glError' = RaiseError(glError, glDrawBuffersError(drawFb, bufs))
    /\ UNCHANGED <<blending, viewport, threads, names>>
    /\ call' = Called("mapForDraw", fb, GL_DRAW_FRAMEBUFFER, <<colorAttachments>>)
    /\ UNCHANGED <<alive, readFb, drawFb, attachments, readBuffer, pipelineVars, content,
                   image2D, counters>>

\* A mapForDraw that adds every entry to GL_COLOR_ATTACHMENT0, an entry of -1
\* included.
mapForDraw_Offset(fb, colorAttachments) ==
    LET b == glBindFramebuffer(Bindings, GL_DRAW_FRAMEBUFFER, fb)
        bufs == [i \in DOMAIN colorAttachments |->
                    GL_COLOR_ATTACHMENT0 + colorAttachments[i]]
    IN
    /\ fb \in alive
    /\ readFb' = b.read
    /\ drawFb' = b.draw
    /\ drawBuffers' = glDrawBuffers(drawBuffers, b.draw, bufs)
    /\ glError' = RaiseError(glError, glDrawBuffersError(b.draw, bufs))
    /\ UNCHANGED <<blending, viewport, threads, names>>
    /\ call' = Called("mapForDraw", fb, GL_DRAW_FRAMEBUFFER, <<colorAttachments>>)
    /\ UNCHANGED <<alive, attachments, readBuffer, pipelineVars, content, image2D,
                   counters>>

\* mapForDraw(colorAttachments), declared only: bind(Target::Draw), then
\* glDrawBuffers with the color attachment of every entry in order, GL_NONE for
\* an entry of -1 ("If any value is -1, given output is not used").
mapForDraw(fb, colorAttachments) ==
    LET b == glBindFramebuffer(Bindings, GL_DRAW_FRAMEBUFFER, fb)
        bufs == [i \in DOMAIN colorAttachments |->
                    IF colorAttachments[i] = -1 THEN GL_NONE
                    ELSE GL_COLOR_ATTACHMENT0 + colorAttachments[i]]
    IN
    /\ fb \in alive
    /\ readFb' = b.read
    /\ drawFb' = b.draw
    /\ drawBuffers' = glDrawBuffers(drawBuffers, b.draw, bufs)
    /\ glError' = RaiseError(glError, glDrawBuffersError(b.draw, bufs))
    /\ UNCHANGED <<blending, viewport, threads, names>>
    /\ call' = Called("mapForDraw", fb, GL_DRAW_FRAMEBUFFER, <<colorAttachments>>)
    /\ UNCHANGED <<alive, attachments, readBuffer, pipelineVars, content, image2D,
                   counters>>

\* A mapDefaultForRead that sets the read buffer of whatever is bound for
\* reading, without bindDefault(Target::Read).
mapDefaultForRead_WithoutBind(attachment) ==
    /\ readBuffer' = glReadBuffer(readBuffer, readFb, attachment)
    /\ glError' = RaiseError(glError, glReadBufferError(readFb, attachment))
    /\ UNCHANGED <<blending, viewport, threads, names>>
    /\ call' = Called("mapDefaultForRead", 0, GL_READ_FRAMEBUFFER, <<attachment>>)
    /\ UNCHANGED <<alive, attachments, drawBuffers, bindingVars, pipelineVars, content,
                   image2D, counters>>

\* static mapDefaultForRead(attachment): bindDefault(Target::Read), then
\* glReadBuffer.
mapDefaultForRead(attachment) ==
    LET b == glBindFramebuffer(Bindings, GL_READ_FRAMEBUFFER, 0) IN
    /\ readFb' = b.read
    /\ drawFb' = b.draw
    /\ readBuffer' = glReadBuffer(readBuffer, b.read, attachment)
    /\ glError' = RaiseError(glError, glReadBufferError(b.read, attachment))
    /\ UNCHANGED <<blending, viewport, threads, names>>
    /\ call' = Called("mapDefaultForRead", 0, GL_READ_FRAMEBUFFER, <<attachment>>)
    /\ UNCHANGED <<alive, attachments, drawBuffers, pipelineVars, content, image2D,
                   counters>>

\* A mapForRead that binds with Target::ReadDraw.
mapForRead_BindsBoth(fb, colorAttachment) ==
    LET b == glBindFramebuffer(Bindings, GL_FRAMEBUFFER, fb) IN
    /\ fb \in alive
    /\ readFb' = b.read
    /\ drawFb' = b.draw
    /\ readBuffer' = glReadBuffer(readBuffer, b.read, GL_COLOR_ATTACHMENT0 + colorAttachment)
    /\ glError' = RaiseError(glError,
                             glReadBufferError(b.read, GL_COLOR_ATTACHMENT0 + colorAttachment))
    /\ UNCHANGED <<blending, viewport, threads, names>>
    /\ call' = Called("mapForRead", fb, GL_READ_FRAMEBUFFER, <<colorAttachment>>)
    /\ UNCHANGED <<alive, attachments, drawBuffers, pipelineVars, content, image2D,
                   counters>>

\* mapForRead(colorAttachment)
mapForRead(fb, colorAttachment) ==
    LET b == glBindFramebuffer(Bindings, GL_READ_FRAMEBUFFER, fb) IN
    /\ fb \in alive
    /\ readFb' = b.read
    /\ drawFb' = b.draw
    /\ readBuffer' = glReadBuffer(readBuffer, b.read, GL_COLOR_ATTACHMENT0 + colorAttachment)
    /\ glError' = RaiseError(glError,
                             glReadBufferError(b.read, GL_COLOR_ATTACHMENT0 + colorAttachment))
    /\ UNCHANGED <<blending, viewport, threads, names>>
    /\ call' = Called("mapForRead", fb, GL_READ_FRAMEBUFFER, <<colorAttachment>>)
    /\ UNCHANGED <<alive, attachments, drawBuffers, pipelineVars, content, image2D,
                   counters>>

(***************************************************************************)
(* Blitting and reading.                                                   *)
(***************************************************************************)
\* What static blit(bottomLeft, topRight, destinationBottomLeft,
\* destinationTopRight, blitMask, filter) does to the GL state: one
\* glBlitFramebuffer call with the x and y of the four corners in order.
blitRectangles(bottomLeft, topRight, destinationBottomLeft, destinationTopRight, blitMask, filter) ==
    /\ transferCalls < MaxTransferCalls
    /\ transferCalls' = transferCalls + 1
    /\ content' = glBlitFramebuffer(content, readFb, drawFb,
                                    bottomLeft[1], bottomLeft[2], topRight[1], topRight[2],
                                    destinationBottomLeft[1], destinationBottomLeft[2],
                                    destinationTopRight[1], destinationTopRight[2],
                                    blitMask, filter)
    /\ glError' = RaiseError(glError,
                             glBlitFramebufferError(readFb, drawFb, blitMask, filter))
    /\ UNCHANGED <<objectVars, bindingVars, pipelineVars, image2D, attachCalls,
                   clearCalls>>

\* static blit(bottomLeft, topRight, destinationBottomLeft, destinationTopRight,
\* blitMask, filter)
blit(bottomLeft, topRight, destinationBottomLeft, destinationTopRight, blitMask, filter) ==
    /\ blitRectangles(bottomLeft, topRight, destinationBottomLeft, destinationTopRight,
                      blitMask, filter)
    /\ UNCHANGED <<blending, viewport, threads, names>>
    /\ call' = Called("blit", 0, GL_NONE, <<bottomLeft, topRight, destinationBottomLeft,
                                            destinationTopRight, blitMask, filter>>)

\* A blit with the roles swapped: from the Draw-bound framebuffer into the
\* Read-bound one.
blitSameRectangle_IntoReadBound(bottomLeft, topRight, blitMask) ==
    /\ transferCalls < MaxTransferCalls
    /\ transferCalls' = transferCalls + 1
    /\ content' = glBlitFramebuffer(content, drawFb, readFb,
                                    bottomLeft[1], bottomLeft[2], topRight[1], topRight[2],
                                    bottomLeft[1], bottomLeft[2], topRight[1], topRight[2],
                                    blitMask, GL_NEAREST)
    /\ glError' = RaiseError(glError,
                             glBlitFramebufferError(readFb, drawFb, blitMask, GL_NEAREST))
    /\ UNCHANGED <<blending, viewport, threads, names>>
    /\ call' = Called("blitSameRectangle", 0, GL_NONE, <<bottomLeft, topRight, blitMask>>)
    /\ UNCHANGED <<objectVars, bindingVars, pipelineVars, image2D, attachCalls,
                   clearCalls>>

\* A same-rectangle blit whose destination corners are passed in the other
\* order, which mirrors the rectangle.
blitSameRectangle_Mirrored(bottomLeft, topRight, blitMask) ==
    /\ transferCalls < MaxTransferCalls
    /\ transferCalls' = transferCalls + 1
    /\ content' = glBlitFramebuffer(content, readFb, drawFb,
                                    bottomLeft[1], bottomLeft[2], topRight[1], topRight[2],
                                    topRight[1], topRight[2], bottomLeft[1], bottomLeft[2],
                                    blitMask, GL_NEAREST)
    /\ glError' = RaiseError(glError,
                             glBlitFramebufferError(readFb, drawFb, blitMask, GL_NEAREST))
    /\ UNCHANGED <<blending, viewport, threads, names>>
    /\ call' = Called("blitSameRectangle", 0, GL_NONE, <<bottomLeft, topRight, blitMask>>)
    /\ UNCHANGED <<objectVars, bindingVars, pipelineVars, image2D, attachCalls,
                   clearCalls>>

\* static blit(bottomLeft, topRight, blitMask)
blitSameRectangle(bottomLeft, topRight, blitMask) ==
    /\ transferCalls < MaxTransferCalls
    /\ transferCalls' = transferCalls + 1
    /\ content' = glBlitFramebuffer(content, readFb, drawFb,
                                    bottomLeft[1], bottomLeft[2], topRight[1], topRight[2],
                                    bottomLeft[1], bottomLeft[2], topRight[1], topRight[2],
                                    blitMask, GL_NEAREST)
    /\ glError' = RaiseError(glError,
                             glBlitFramebufferError(readFb, drawFb, blitMask, GL_NEAREST))
    /\ UNCHANGED <<blending, viewport, threads, names>>
    /\ call' = Called("blitSameRectangle", 0, GL_NONE, <<bottomLeft, topRight, blitMask>>)
    /\ UNCHANGED <<objectVars, bindingVars, pipelineVars, image2D, attachCalls,
                   clearCalls>>

\* static read(offset, dimensions, components, type, image), declared only:
\* glReadPixels from the Read-bound framebuffer, then the image takes the
\* dimensions and the pixels read.
read(offset, dimensions) ==
    /\ transferCalls < MaxTransferCalls
    /\ transferCalls' = transferCalls + 1
    /\ image2D' = IF FramebufferComplete(readFb)
                    THEN [dimensions |-> dimensions,
                          data |-> glReadPixels(content, readFb, offset, dimensions)]
                    ELSE [dimensions |-> dimensions, data |-> <<>>]
    /\ glError' = RaiseError(glError, glReadPixelsError(readFb))
    /\ UNCHANGED <<blending, viewport, threads, names>>
    /\ call' = Called("read", 0, GL_NONE, <<offset, dimensions>>)
    /\ UNCHANGED <<objectVars, bindingVars, pipelineVars, content, attachCalls,
                   clearCalls>>

(***************************************************************************)
(* Attaching textures and renderbuffers.  Every attach function is         *)
(* bind(target) followed by one native attach call on `target`.            *)
(***************************************************************************)
\* An attach function without its bind(target): the native call addresses
\* whichever object is bound to `target` at the time.
Attach_WithoutBind(fb, target, attachment, image) ==
    /\ fb \in alive
    /\ attachCalls < MaxAttachCalls
    /\ attachCalls' = attachCalls + 1
    /\ attachments' = glFramebufferAttach(attachments, Bindings, target, attachment,
                                          image)
    /\ glError' = RaiseError(glError,
                             glFramebufferAttachError(Bindings, target, attachment))
    /\ UNCHANGED <<alive, readFb, drawFb, drawBuffers, readBuffer, pipelineVars,
                   content, image2D, clearCalls, transferCalls>>

\* An attach function that checks the format first: what cannot be rendered to
\* at the attachment is refused with an error and not attached.
Attach_Validating(fb, target, attachment, image) ==
    LET b == glBindFramebuffer(Bindings, target, fb)
        refused == \E p \in AttachmentPoints :
                        /\ p = attachment \/ attachment = GL_DEPTH_STENCIL_ATTACHMENT
                        /\ ~Renderable(p, image)
    IN
    /\ fb \in alive
    /\ attachCalls < MaxAttachCalls
    /\ attachCalls' = attachCalls + 1
    /\ readFb' = b.read
    /\ drawFb' = b.draw
    /\ attachments' = IF refused THEN attachments
                       ELSE glFramebufferAttach(attachments, b, target, attachment, image)
    /\ glError' = RaiseError(glError,
                             IF refused THEN "GL_INVALID_OPERATION"
                             ELSE glFramebufferAttachError(b, target, attachment))
    /\ UNCHANGED <<alive, drawBuffers, readBuffer, pipelineVars, content, image2D,
                   clearCalls, transferCalls>>

\* An attach that binds the framebuffers bound before again once it is done.
Attach_Restoring(fb, target, attachment, image) ==
    LET b == glBindFramebuffer(Bindings, target, fb) IN
    /\ fb \in alive
    /\ attachCalls < MaxAttachCalls
    /\ attachCalls' = attachCalls + 1
    /\ UNCHANGED bindingVars
    /\ attachments' = glFramebufferAttach(attachments, b, target, attachment, image)
    /\ glError' = RaiseError(glError, glFramebufferAttachError(b, target, attachment))
    /\ UNCHANGED <<alive, drawBuffers, readBuffer, pipelineVars, content, image2D,
                   clearCalls, transferCalls>>

Attach(fb, target, attachment, image) ==
    LET b == glBindFramebuffer(Bindings, target, fb) IN
    /\ fb \in alive
    /\ attachCalls < MaxAttachCalls
    /\ attachCalls' = attachCalls + 1
    /\ readFb' = b.read
    /\ drawFb' = b.draw
    /\ attachments' = glFramebufferAttach(attachments, b, target, attachment, image)
    /\ glError' = RaiseError(glError, glFramebufferAttachError(b, target, attachment))
    /\ UNCHANGED <<alive, drawBuffers, readBuffer, pipelineVars, content, image2D,
                   clearCalls, transferCalls>>

attachRenderbufferDepthStencil(fb, target, depthStencilAttachment, renderbuffer) ==
    /\ UNCHANGED <<blending, viewport, threads, names>>
    /\ call' = Called("attachRenderbufferDepthStencil", fb, target, <<depthStencilAttachment, renderbuffer>>)
    /\ Attach(fb, target, depthStencilAttachment, RenderbufferImage(renderbuffer))

attachRenderbufferColor(fb, target, colorAttachment, renderbuffer) ==
    /\ UNCHANGED <<blending, viewport, threads, names>>
    /\ call' = Called("attachRenderbufferColor", fb, target, <<colorAttachment, renderbuffer>>)
    /\ Attach(fb, target, GL_COLOR_ATTACHMENT0 + colorAttachment,
              RenderbufferImage(renderbuffer))

attachTexture1DDepthStencil(fb, target, depthStencilAttachment, texture, mipLevel) ==
    /\ UNCHANGED <<blending, viewport, threads, names>>
    /\ call' = Called("attachTexture1DDepthStencil", fb, target, <<depthStencilAttachment, texture, mipLevel>>)
    /\ Attach(fb, target, depthStencilAttachment,
              TextureImage(GL_TEXTURE_1D, texture, mipLevel, 0))

attachTexture1DColor(fb, target, colorAttachment, texture, mipLevel) ==
    /\ UNCHANGED <<blending, viewport, threads, names>>
    /\ call' = Called("attachTexture1DColor", fb, target, <<colorAttachment, texture, mipLevel>>)
    /\ Attach(fb, target, GL_COLOR_ATTACHMENT0 + colorAttachment,
              TextureImage(GL_TEXTURE_1D, texture, mipLevel, 0))

attachTexture2DDepthStencil(fb, target, depthStencilAttachment, texture, mipLevel) ==
    /\ UNCHANGED <<blending, viewport, threads, names>>
    /\ call' = Called("attachTexture2DDepthStencil", fb, target, <<depthStencilAttachment, texture, mipLevel>>)
    /\ Attach(fb, target, depthStencilAttachment,
              TextureImage(GL_TEXTURE_2D, texture, mipLevel, 0))

attachTexture2DColor(fb, target, colorAttachment, texture, mipLevel) ==
    /\ UNCHANGED <<blending, viewport, threads, names>>
    /\ call' = Called("attachTexture2DColor", fb, target, <<colorAttachment, texture, mipLevel>>)
    /\ Attach(fb, target, GL_COLOR_ATTACHMENT0 + colorAttachment,
              TextureImage(GL_TEXTURE_2D, texture, mipLevel, 0))

attachCubeMapTextureDepthStencil(fb, target, depthStencilAttachment, texture, coordinate, mipLevel) ==
    /\ UNCHANGED <<blending, viewport, threads, names>>
    /\ call' = Called("attachCubeMapTextureDepthStencil", fb, target,
                      <<depthStencilAttachment, texture, coordinate, mipLevel>>)
    /\ Attach(fb, target, depthStencilAttachment,
              TextureImage(coordinate, texture, mipLevel, 0))

attachCubeMapTextureColor(fb, target, colorAttachment, texture, coordinate, mipLevel) ==
    /\ UNCHANGED <<blending, viewport, threads, names>>
    /\ call' = Called("attachCubeMapTextureColor", fb, target, <<colorAttachment, texture, coordinate, mipLevel>>)
    /\ Attach(fb, target, GL_COLOR_ATTACHMENT0 + colorAttachment,
              TextureImage(coordinate, texture, mipLevel, 0))

attachTexture3DDepthStencil(fb, target, depthStencilAttachment, texture, mipLevel, layer) ==
    /\ UNCHANGED <<blending, viewport, threads, names>>
    /\ call' = Called("attachTexture3DDepthStencil", fb, target,
                      <<depthStencilAttachment, texture, mipLevel, layer>>)
    /\ Attach(fb, target, depthStencilAttachment,
              TextureImage(GL_TEXTURE_3D, texture, mipLevel, layer))

\* A 3D texture attach that hands the native call layer and mip level swapped.
attachTexture3DColor_Swapped(fb, target, colorAttachment, texture, mipLevel, layer) ==
    /\ UNCHANGED <<blending, viewport, threads, names>>
    /\ call' = Called("attachTexture3DColor", fb, target,
                      <<colorAttachment, texture, mipLevel, layer>>)
    /\ Attach(fb, target, GL_COLOR_ATTACHMENT0 + colorAttachment,
              TextureImage(GL_TEXTURE_3D, texture, layer, mipLevel))

attachTexture3DColor(fb, target, colorAttachment, texture, mipLevel, layer) ==
    /\ UNCHANGED <<blending, viewport, threads, names>>
    /\ call' = Called("attachTexture3DColor", fb, target, <<colorAttachment, texture, mipLevel, layer>>)
    /\ Attach(fb, target, GL_COLOR_ATTACHMENT0 + colorAttachment,
              TextureImage(GL_TEXTURE_3D, texture, mipLevel, layer))

(***************************************************************************)
(* Calls from several threads.  The header takes no lock and every call    *)
(* goes to the one current context, so a function that is bind(target)     *)
(* followed by a native call is two steps, and the calls of another thread *)
(* can come between them.  A thread that has bound is pending with the     *)
(* call whose native part it issues next.  Callers that serialize start a  *)
(* call only while no thread is pending.                                   *)
(***************************************************************************)
MayStart(t) ==
    /\ threads.pending[t] = NoCall
    /\ threads.serialized => \A u \in Threads : threads.pending[u] = NoCall

\* The callers agree, before the first call, to run every call under one lock.
serialize ==
    /\ ~threads.serialized
    /\ call.op = "none"
    /\ threads' = [threads EXCEPT !.serialized = TRUE]
    /\ UNCHANGED <<objectVars, bindingVars, pipelineVars, content, image2D, glError,
                   counters, blending, viewport, names, call>>

\* bind(target), as the first statement of the call c of thread t.
bindFirst(t, c) ==
    /\ MayStart(t)
    /\ c.fb \in alive
    /\ readFb' = glBindFramebuffer(Bindings, c.target, c.fb).read
    /\ drawFb' = glBindFramebuffer(Bindings, c.target, c.fb).draw
    /\ threads' = [threads EXCEPT !.pending[t] = c]
    /\ call' = Called("bind", c.fb, c.target, <<>>)
    /\ UNCHANGED <<objectVars, pipelineVars, content, image2D, glError, blending,
                   viewport, names>>

\* attachRenderbuffer(target, depthStencilAttachment, renderbuffer), up to and
\* including its bind(target).
attachRenderbufferBind(t, fb, target, depthStencilAttachment, renderbuffer) ==
    /\ attachCalls < MaxAttachCalls
    /\ attachCalls' = attachCalls + 1
    /\ bindFirst(t, Called("attachRenderbufferDepthStencil", fb, target,
                           <<depthStencilAttachment, renderbuffer>>))
    /\ UNCHANGED <<clearCalls, transferCalls>>

\* A native attach that names the framebuffer object it attaches to, whatever
\* is bound.
attachRenderbufferNative_Direct(t) ==
    LET c == threads.pending[t]
        own == [read |-> c.fb, draw |-> c.fb]
    IN
    /\ c.op = "attachRenderbufferDepthStencil"
    /\ attachments' = glFramebufferAttach(attachments, own, c.target, c.args[1],
                                          RenderbufferImage(c.args[2]))
    /\ glError' = RaiseError(glError, glFramebufferAttachError(own, c.target, c.args[1]))
    /\ threads' = [threads EXCEPT !.pending[t] = NoCall]
    /\ call' = c
    /\ UNCHANGED <<alive, drawBuffers, readBuffer, bindingVars, pipelineVars, content,
                   image2D, counters, blending, viewport, names>>

\* The rest of attachRenderbuffer: glFramebufferRenderbuffer on `target`.
attachRenderbufferNative(t) ==
    LET c == threads.pending[t] IN
    /\ c.op = "attachRenderbufferDepthStencil"
    /\ attachments' = glFramebufferAttach(attachments, Bindings, c.target, c.args[1],
                                          RenderbufferImage(c.args[2]))
    /\ glError' = RaiseError(glError,
                             glFramebufferAttachError(Bindings, c.target, c.args[1]))
    /\ threads' = [threads EXCEPT !.pending[t] = NoCall]
    /\ call' = c
    /\ UNCHANGED <<alive, drawBuffers, readBuffer, bindingVars, pipelineVars, content,
                   image2D, counters, blending, viewport, names>>

\* mapForRead(colorAttachment), up to and including its bind(Target::Read).
mapForReadBind(t, fb, colorAttachment) ==
    /\ bindFirst(t, Called("mapForRead", fb, GL_READ_FRAMEBUFFER, <<colorAttachment>>))
    /\ UNCHANGED counters

\* The rest of mapForRead: glReadBuffer.
mapForReadNative(t) ==
    LET c == threads.pending[t]
        buffer == GL_COLOR_ATTACHMENT0 + c.args[1]
    IN
    /\ c.op = "mapForRead"
    /\ readBuffer' = glReadBuffer(readBuffer, readFb, buffer)
    /\ glError' = RaiseError(glError, glReadBufferError(readFb, buffer))
    /\ threads' = [threads EXCEPT !.pending[t] = NoCall]
    /\ call' = c
    /\ UNCHANGED <<alive, attachments, drawBuffers, bindingVars, pipelineVars, content,
                   image2D, counters, blending, viewport, names>>

\* A caller that clears framebuffer fb: bind(Target::Draw) on it ...
clearBind(t, fb) ==
    /\ clearCalls < MaxClearCalls
    /\ clearCalls' = clearCalls + 1
    /\ bindFirst(t, Called("clear", fb, GL_DRAW_FRAMEBUFFER, <<>>))
    /\ UNCHANGED <<attachCalls, transferCalls>>

\* ... and then the static clear().
clearNative(t) ==
    LET c == threads.pending[t] IN
    /\ c.op = "clear"
    /\ content' = glClear(content, drawFb, clearMask)
    /\ glError' = RaiseError(glError, glClearError(drawFb))
    /\ threads' = [threads EXCEPT !.pending[t] = NoCall]
    /\ call' = Called("clear", 0, GL_NONE, <<>>)
    /\ UNCHANGED <<objectVars, bindingVars, pipelineVars, image2D, counters, blending,
                   viewport, names>>

\* A caller that blits the whole of framebuffer fb to what is bound for
\* drawing: bind(Target::Read) on it ...
blitBind(t, fb) ==
    /\ transferCalls < MaxTransferCalls
    /\ transferCalls' = transferCalls + 1
    /\ bindFirst(t, Called("blit", fb, GL_READ_FRAMEBUFFER, <<>>))
    /\ UNCHANGED <<attachCalls, clearCalls>>

\* ... and then the static blit(bottomLeft, topRight, blitMask).
blitNative(t) ==
    LET c == threads.pending[t] IN
    /\ c.op = "blit"
    /\ content' = glBlitFramebuffer(content, readFb, drawFb, 0, 0, Width, Height,
                                    0, 0, Width, Height, GL_DEPTH_BUFFER_BIT,
                                    GL_NEAREST)
    /\ glError' = RaiseError(glError,
                             glBlitFramebufferError(readFb, drawFb, GL_DEPTH_BUFFER_BIT,
                                                    GL_NEAREST))
    /\ threads' = [threads EXCEPT !.pending[t] = NoCall]
    /\ call' = Called("blitSameRectangle", 0, GL_NONE,
                      <<<<0, 0>>, <<Width, Height>>, GL_DEPTH_BUFFER_BIT>>)
    /\ UNCHANGED <<objectVars, bindingVars, pipelineVars, image2D, counters, blending,
                   viewport, names>>

(***************************************************************************)
(* Binding and attaching: any single-threaded sequence of bind,            *)
(* bindDefault and the ten attach functions, on the objects constructed.   *)
(* Renderbuffers and 2D textures go to every slot; 1D, cube map and 3D     *)
(* textures to one depth/stencil slot and one color slot each.             *)
(***************************************************************************)
Next ==
    \/ \E target \in Target : bindDefault(target)
    \/ \E fb \in Handles, target \in Target : bind(fb, target)
    \/ \E fb \in Handles, target \in Target, a \in DepthStencilAttachment,
          r \in Renderbuffers :
            attachRenderbufferDepthStencil(fb, target, a, r)
    \/ \E fb \in Handles, target \in Target, c \in ColorAttachmentIds,
          r \in Renderbuffers :
            attachRenderbufferColor(fb, target, c, r)
    \/ \E fb \in Handles, target \in Target, t \in Textures1D :
            attachTexture1DDepthStencil(fb, target, GL_DEPTH_STENCIL_ATTACHMENT, t,
                                        MaxMipLevel)
    \/ \E fb \in Handles, target \in Target, t \in Textures1D :
            attachTexture1DColor(fb, target, MaxColorAttachmentId, t, MaxMipLevel)
    \/ \E fb \in Handles, target \in Target, a \in DepthStencilAttachment,
          t \in Textures2D, l \in MipLevels :
            attachTexture2DDepthStencil(fb, target, a, t, l)
    \/ \E fb \in Handles, target \in Target, c \in ColorAttachmentIds,
          t \in Textures2D, l \in MipLevels :
            attachTexture2DColor(fb, target, c, t, l)
    \/ \E fb \in Handles, target \in Target, t \in CubeMapTextures :
            attachCubeMapTextureDepthStencil(fb, target, GL_DEPTH_ATTACHMENT, t,
                                             GL_TEXTURE_CUBE_MAP_NEGATIVE_Y, MaxMipLevel)
    \/ \E fb \in Handles, target \in Target, t \in CubeMapTextures :
            attachCubeMapTextureColor(fb, target, 0, t,
                                      GL_TEXTURE_CUBE_MAP_POSITIVE_X, 0)
    \/ \E fb \in Handles, target \in Target, t \in Textures3D :
            attachTexture3DDepthStencil(fb, target, GL_STENCIL_ATTACHMENT, t, 0, MaxLayer)
    \/ \E fb \in Handles, target \in Target, t \in Textures3D :
            attachTexture3DColor(fb, target, MaxColorAttachmentId, t, MaxMipLevel,
                                 MaxLayer)

Spec == Init /\ [][Next]_vars

(***************************************************************************)
(* Lifecycle: framebuffer objects are destroyed and constructed again      *)
(* while they or others are bound, hold attachments and are mapped, and    *)
(* the Draw-bound framebuffer is cleared.                                  *)
(***************************************************************************)
NextLifecycle ==
    \/ \E fb \in Handles : Constructor(fb)
    \/ \E fb \in Handles : Destructor(fb)
    \/ \E target \in Target : bindDefault(target)
    \/ \E fb \in Handles, target \in Target : bind(fb, target)
    \/ \E fb \in Handles, texture \in Textures2D :
            attachTexture2DColor(fb, GL_DRAW_FRAMEBUFFER, 0, texture, 0)
    \/ \E fb \in Handles, renderbuffer \in Renderbuffers :
            attachRenderbufferDepthStencil(fb, GL_READ_FRAMEBUFFER, GL_DEPTH_ATTACHMENT,
                                           renderbuffer)
    \/ mapForDraw(2, <<-1, 0>>)
    \/ mapForRead(2, MaxColorAttachmentId)
    \/ mapDefaultForRead(GL_FRONT)
    \/ clearWithMask(GL_COLOR_BUFFER_BIT)

SpecLifecycle == Init /\ [][NextLifecycle]_vars

(***************************************************************************)
(* Rebinding: two framebuffer objects are given a mip level of the same    *)
(* color texture each (the same level, or different ones), are bound and   *)
(* mapped, and the bound framebuffers are cleared, blitted and read.       *)
(***************************************************************************)
NextRebind ==
    \/ \E fb \in Handles, target \in {GL_READ_FRAMEBUFFER, GL_DRAW_FRAMEBUFFER} :
            bind(fb, target)
    \/ \E texture \in Textures2D :
            attachTexture2DColor(1, GL_READ_FRAMEBUFFER, 0, texture, 0)
    \/ \E texture \in Textures2D, mipLevel \in MipLevels :
            attachTexture2DColor(2, GL_READ_FRAMEBUFFER, 0, texture, mipLevel)
    \/ mapForDraw(1, <<-1, 0>>)
    \/ mapForRead(2, 0)
    \/ clearWithMask(GL_COLOR_BUFFER_BIT)
    \/ blitSameRectangle(<<0, 0>>, <<Width, Height>>, GL_COLOR_BUFFER_BIT)
    \/ blit(<<0, 0>>, <<1, 1>>, <<Width, Height>>, <<0, 0>>, GL_COLOR_BUFFER_BIT, GL_LINEAR)
    \/ read(<<0, 0>>, <<Width, Height>>)

SpecRebind == Init /\ [][NextRebind]_vars

(***************************************************************************)
(* Clearing: the default framebuffer or a framebuffer object is bound for  *)
(* drawing, the object is given a depth-stencil renderbuffer and a color   *)
(* texture, the tests are toggled, the clear depth and stencil are set,    *)
(* and the Draw-bound framebuffer is cleared.                              *)
(***************************************************************************)
NextClear ==
    \/ bindDefault(GL_DRAW_FRAMEBUFFER)
    \/ bind(1, GL_DRAW_FRAMEBUFFER)
    \/ \E renderbuffer \in Renderbuffers :
            attachRenderbufferDepthStencil(1, GL_DRAW_FRAMEBUFFER,
                                           GL_DEPTH_STENCIL_ATTACHMENT, renderbuffer)
    \/ \E texture \in Textures2D :
            attachTexture2DColor(1, GL_DRAW_FRAMEBUFFER, 0, texture, 0)
    \/ \E feature \in ToggledFeatures, enable \in BOOLEAN : setFeature(feature, enable)
    \/ \E depth \in ClearDepths : setClearDepth(depth)
    \/ \E stencil \in ClearStencils : setClearStencil(stencil)
    \/ clear
    \/ \E mask \in ClearMasks : clearWithMask(mask)

SpecClear == Init /\ [][NextClear]_vars

(***************************************************************************)
(* Blitting: the default framebuffer and a framebuffer object with a color *)
(* texture and a depth-stencil renderbuffer are bound to either role and   *)
(* mapped, the Draw-bound one is cleared, and rectangles are blitted from  *)
(* the Read-bound to the Draw-bound one.                                   *)
(***************************************************************************)
\* The rectangles blitted: the whole image, the whole image with swapped
\* corners, and one that covers the first column and reaches outside the image.
BlitRectangles ==
    {<<<<0, 0>>, <<Width, Height>>>>,
     <<<<Width, Height>>, <<0, 0>>>>,
     <<<<-1, 0>>, <<1, Height + 1>>>>}
BlitMasks ==
    {GL_COLOR_BUFFER_BIT,
     GL_COLOR_BUFFER_BIT + GL_DEPTH_BUFFER_BIT + GL_STENCIL_BUFFER_BIT}

NextBlit ==
    \/ \E target \in {GL_READ_FRAMEBUFFER, GL_DRAW_FRAMEBUFFER} : bindDefault(target)
    \/ \E target \in {GL_READ_FRAMEBUFFER, GL_DRAW_FRAMEBUFFER} : bind(1, target)
    \/ \E texture \in Textures2D :
            attachTexture2DColor(1, GL_DRAW_FRAMEBUFFER, 0, texture, 0)
    \/ \E renderbuffer \in Renderbuffers :
            attachRenderbufferDepthStencil(1, GL_READ_FRAMEBUFFER,
                                           GL_DEPTH_STENCIL_ATTACHMENT, renderbuffer)
    \/ mapForRead(1, MaxColorAttachmentId)
    \/ mapForDraw(1, <<-1>>)
    \/ clearWithMask(GL_COLOR_BUFFER_BIT + GL_DEPTH_BUFFER_BIT + GL_STENCIL_BUFFER_BIT)
    \/ \E r \in BlitRectangles, blitMask \in BlitMasks :
            blitSameRectangle(r[1], r[2], blitMask)

SpecBlit == Init /\ [][NextBlit]_vars

(***************************************************************************)
(* Mapping: the default framebuffer and two framebuffer objects, one of    *)
(* them given a color texture, are bound to either role or both and mapped *)
(* for drawing and for reading.                                            *)
(***************************************************************************)
\* The sequences mapped for drawing: with and without entries of -1, and one
\* that names a color attachment twice.
DrawMappings == {<<2, -1, 0>>, <<-1>>, <<0, 0>>}
DefaultDrawMappings == {<<GL_NONE, GL_FRONT_LEFT>>}

NextMap ==
    \/ \E target \in {GL_READ_FRAMEBUFFER, GL_DRAW_FRAMEBUFFER} : bindDefault(target)
    \/ \E fb \in Handles, target \in Target : bind(fb, target)
    \/ \E fb \in Handles, colorAttachments \in DrawMappings :
            mapForDraw(fb, colorAttachments)
    \/ \E defaultAttachments \in DefaultDrawMappings : mapDefaultForDraw(defaultAttachments)
    \/ \E fb \in Handles, colorAttachment \in ColorAttachmentIds :
            mapForRead(fb, colorAttachment)
    \/ \E attachment \in {GL_FRONT, GL_BACK} : mapDefaultForRead(attachment)
    \/ \E texture \in Textures2D :
            attachTexture2DColor(1, GL_READ_FRAMEBUFFER, 0, texture, 0)

SpecMap == Init /\ [][NextMap]_vars

(***************************************************************************)
(* Incomplete framebuffers: framebuffer 1 is given a color texture, and    *)
(* color textures as depth and stencil attachment and a depth-stencil      *)
(* renderbuffer as color attachment, which cannot be rendered to there;    *)
(* framebuffers are bound and mapped, and the bound ones are cleared,      *)
(* blitted and read.                                                       *)
(***************************************************************************)
NextIncomplete ==
    \/ \E target \in {GL_READ_FRAMEBUFFER, GL_DRAW_FRAMEBUFFER} : bindDefault(target)
    \/ \E target \in {GL_READ_FRAMEBUFFER, GL_DRAW_FRAMEBUFFER} : bind(1, target)
    \/ \E texture \in Textures2D :
            attachTexture2DColor(1, GL_DRAW_FRAMEBUFFER, 0, texture, 0)
    \/ \E texture \in Textures1D :
            attachTexture1DDepthStencil(1, GL_DRAW_FRAMEBUFFER, GL_DEPTH_ATTACHMENT,
                                        texture, 0)
    \/ \E texture \in Textures2D :
            attachTexture2DDepthStencil(1, GL_READ_FRAMEBUFFER, GL_STENCIL_ATTACHMENT,
                                        texture, MaxMipLevel)
    \/ \E renderbuffer \in Renderbuffers :
            attachRenderbufferColor(1, GL_READ_FRAMEBUFFER, MaxColorAttachmentId,
                                    renderbuffer)
    \/ mapForRead(1, 0)
    \/ clear
    \/ blitSameRectangle(<<0, 0>>, <<Width, Height>>, GL_COLOR_BUFFER_BIT)
    \/ read(<<0, 0>>, <<Width, Height>>)

SpecIncomplete == Init /\ [][NextIncomplete]_vars

(***************************************************************************)
(* Blitting to several draw buffers: framebuffer 1 is given two mip levels *)
(* of a texture as color attachments 0 and 15 and is mapped for drawing    *)
(* with both, in either order, or with one of them; the default            *)
(* framebuffer is cleared and blitted into framebuffer 1.                  *)
(***************************************************************************)
ManyDrawMappings == {<<0, MaxColorAttachmentId>>, <<MaxColorAttachmentId, 0>>,
                     <<-1, MaxColorAttachmentId>>}

NextBlitMany ==
    \/ bindDefault(GL_READ_FRAMEBUFFER)
    \/ \E fb \in Handles : bind(fb, GL_READ_FRAMEBUFFER)
    \/ \E texture \in Textures2D :
            attachTexture2DColor(1, GL_DRAW_FRAMEBUFFER, 0, texture, 0)
    \/ \E texture \in Textures2D :
            attachTexture2DColor(1, GL_READ_FRAMEBUFFER, MaxColorAttachmentId, texture,
                                 MaxMipLevel)
    \/ \E colorAttachments \in ManyDrawMappings : mapForDraw(1, colorAttachments)
    \/ clearWithMask(GL_COLOR_BUFFER_BIT)
    \/ blitSameRectangle(<<0, 0>>, <<Width, Height>>, GL_COLOR_BUFFER_BIT)
    \/ \E blitMask \in {GL_COLOR_BUFFER_BIT, GL_DEPTH_BUFFER_BIT} :
            blit(<<0, 0>>, <<Width, Height>>, <<0, 0>>, <<Width, Height>>, blitMask,
                 GL_NEAREST)

SpecBlitMany == Init /\ [][NextBlitMany]_vars

(***************************************************************************)
(* End to end: framebuffer 1 is given a color texture and a depth          *)
(* renderbuffer through either role, it or framebuffer 2 is bound for      *)
(* drawing, its draw mapping is set, the depth test is toggled, the clear  *)
(* color and depth are set, and the Draw-bound framebuffer is cleared.     *)
(***************************************************************************)
NextEndToEnd ==
    \/ \E fb \in Handles : bind(fb, GL_DRAW_FRAMEBUFFER)
    \/ \E target \in {GL_READ_FRAMEBUFFER, GL_DRAW_FRAMEBUFFER}, texture \in Textures2D :
            attachTexture2DColor(1, target, 0, texture, 0)
    \/ \E target \in {GL_READ_FRAMEBUFFER, GL_DRAW_FRAMEBUFFER},
            renderbuffer \in Renderbuffers :
            attachRenderbufferDepthStencil(1, target, GL_DEPTH_ATTACHMENT, renderbuffer)
    \/ \E colorAttachments \in {<<0>>, <<-1>>} : mapForDraw(1, colorAttachments)
    \/ \E enable \in BOOLEAN : setFeature(GL_DEPTH_TEST, enable)
    \/ \E color \in ClearColors : setClearColor(color)
    \/ \E depth \in ClearDepths : setClearDepth(depth)
    \/ clear

SpecEndToEnd == Init /\ [][NextEndToEnd]_vars

(***************************************************************************)
(* Initial pipeline state: no setter is called; the default framebuffer or *)
(* a framebuffer object is bound for drawing, the object is given a color  *)
(* texture and a depth-stencil renderbuffer, and the Draw-bound            *)
(* framebuffer is cleared.                                                 *)
(***************************************************************************)
NextInitial ==
    \/ bindDefault(GL_DRAW_FRAMEBUFFER)
    \/ bind(1, GL_DRAW_FRAMEBUFFER)
    \/ \E renderbuffer \in Renderbuffers :
            attachRenderbufferDepthStencil(1, GL_DRAW_FRAMEBUFFER,
                                           GL_DEPTH_STENCIL_ATTACHMENT, renderbuffer)
    \/ \E texture \in Textures2D :
            attachTexture2DColor(1, GL_DRAW_FRAMEBUFFER, 0, texture, 0)
    \/ clear
    \/ clearWithMask(GL_STENCIL_BUFFER_BIT)

SpecInitial == Init /\ [][NextInitial]_vars

(***************************************************************************)
(* Features: every feature is enabled and disabled, and the default        *)
(* framebuffer is cleared with clear() in between.                         *)
(***************************************************************************)
NextFeature ==
    \/ \E feature \in Feature, enable \in BOOLEAN : setFeature(feature, enable)
    \/ clear

SpecFeature == Init /\ [][NextFeature]_vars

(***************************************************************************)
(* Persistence: framebuffer 1 and the default framebuffer are mapped, and  *)
(* in between framebuffers are bound, a texture is attached, the pipeline  *)
(* state is set, and the bound framebuffers are cleared and blitted.       *)
(***************************************************************************)
NextPersist ==
    \/ bindDefault(GL_FRAMEBUFFER)
    \/ \E fb \in Handles : bind(fb, GL_FRAMEBUFFER)
    \/ mapForDraw(1, <<-1, 0>>)
    \/ mapForRead(1, MaxColorAttachmentId)
    \/ \E defaultAttachments \in DefaultDrawMappings : mapDefaultForDraw(defaultAttachments)
    \/ \E texture \in Textures2D :
            attachTexture2DColor(2, GL_DRAW_FRAMEBUFFER, 0, texture, 0)
    \/ setFeature(GL_DEPTH_TEST, TRUE)
    \/ clear
    \/ blitSameRectangle(<<0, 0>>, <<Width, Height>>, GL_COLOR_BUFFER_BIT)

SpecPersist == Init /\ [][NextPersist]_vars

(***************************************************************************)
(* Threads: two threads, each with a framebuffer object of its own, attach *)
(* a depth renderbuffer to it, map it for reading, clear it and blit from  *)
(* it, each call as a bind step and a native step, with or without a lock  *)
(* around the two; the depth test is enabled at some point.                *)
(***************************************************************************)
\* Each thread works with a framebuffer object of its own, and each
\* framebuffer object is given a depth renderbuffer of its own.
FramebufferOf(t) == t
RenderbufferFor(fb) == fb

NextThreads ==
    \/ serialize
    \/ setFeature(GL_DEPTH_TEST, TRUE)
    \/ \E t \in Threads :
        attachRenderbufferBind(t, FramebufferOf(t), GL_DRAW_FRAMEBUFFER,
                               GL_DEPTH_ATTACHMENT, RenderbufferFor(FramebufferOf(t)))
    \/ \E t \in Threads : attachRenderbufferNative(t)
    \/ \E t \in Threads : mapForReadBind(t, FramebufferOf(t), MaxColorAttachmentId)
    \/ \E t \in Threads : mapForReadNative(t)
    \/ \E t \in Threads : clearBind(t, FramebufferOf(t))
    \/ \E t \in Threads : clearNative(t)
    \/ \E t \in Threads : blitBind(t, FramebufferOf(t))
    \/ \E t \in Threads : blitNative(t)

SpecThreads == Init /\ [][NextThreads]_vars

(***************************************************************************)
(* Setters: the clear values, the write masks, the blend state and the     *)
(* viewport are set while the default framebuffer or a framebuffer object, *)
(* which is given a color texture, is bound and is cleared.                *)
(***************************************************************************)
ColorMasks == {<<FALSE, TRUE, TRUE, TRUE>>}
StencilMasks == {1}
StencilMaskFace == {GL_FRONT, GL_BACK, GL_FRONT_AND_BACK}
BlendColors == {<<One, 0, 0, One>>}
Viewports == {<<<<1, 0>>, <<1, 1>>>>, <<<<0, 0>>, <<-1, Height>>>>}

\* The settings the setters record, and those of a new context.
SettingsOf(cv, wm, bl, vp) ==
    <<cv.color, cv.depth, cv.stencil, wm.color, wm.depth, <<wm.front, wm.back>>,
      <<bl.equationRgb, bl.equationAlpha>>,
      <<bl.sourceRgb, bl.destinationRgb, bl.sourceAlpha, bl.destinationAlpha>>,
      bl.color, vp>>
Settings == SettingsOf(clearValues, writeMasks, blending, viewport)
InitialSettings ==
    SettingsOf([color |-> <<0, 0, 0, One>>, depth |-> One, stencil |-> 0],
               [color |-> <<TRUE, TRUE, TRUE, TRUE>>, depth |-> TRUE,
                front |-> AllBits, back |-> AllBits],
               InitialBlending, InitialViewport)

\* A run sets up to MaxSettings settings to other values than the initial ones.
Settable ==
    Cardinality({i \in DOMAIN Settings : Settings[i] # InitialSettings[i]}) < MaxSettings

NextSetters ==
    \/ bind(1, GL_FRAMEBUFFER)
    \/ \E texture \in Textures2D :
            attachTexture2DColor(1, GL_DRAW_FRAMEBUFFER, 0, texture, 0)
    \/ clear
    \/ \E color \in ClearColors : Settable /\ setClearColor(color)
    \/ \E depth \in ClearDepths : Settable /\ setClearDepth(depth)
    \/ \E stencil \in ClearStencils : Settable /\ setClearStencil(stencil)
    \/ \E mask \in ColorMasks :
            Settable /\ setColorMask(mask[1], mask[2], mask[3], mask[4])
    \/ Settable /\ setDepthMask(FALSE)
    \/ \E allowBits \in StencilMasks : Settable /\ setStencilMask(allowBits)
    \/ \E face \in StencilMaskFace : Settable /\ setStencilMaskFace(face, 0)
    \/ Settable /\ setBlendEquation(GL_FUNC_SUBTRACT)
    \/ Settable /\ setBlendEquationSeparate(GL_MAX, GL_FUNC_ADD)
    \/ Settable /\ setBlendFunction(GL_SRC_ALPHA, GL_ONE_MINUS_SRC_ALPHA)
    \/ Settable /\ setBlendFunctionSeparate(GL_ONE, GL_ONE, GL_ZERO, GL_ONE)
    \/ \E color \in BlendColors : Settable /\ setBlendColor(color)
    \/ \E v \in Viewports : Settable /\ setViewport(v[1], v[2])

SpecSetters == Init /\ [][NextSetters]_vars

(***************************************************************************)
(* Displacing: the two framebuffer objects are bound to either role or to  *)
(* both, each is given a face of a cube map texture as color attachment    *)
(* and framebuffer 2 a depth-stencil renderbuffer, through either role or  *)
(* both, and the bound framebuffers are cleared, blitted and read.         *)
(***************************************************************************)
\* The cube map face each framebuffer object is given.
CoordinateFor(fb) ==
    IF fb = 1 THEN GL_TEXTURE_CUBE_MAP_POSITIVE_X ELSE GL_TEXTURE_CUBE_MAP_NEGATIVE_Y

NextDisplace ==
    \/ \E fb \in Handles, target \in Target : bind(fb, target)
    \/ \E fb \in Handles, target \in Target, texture \in CubeMapTextures :
            attachCubeMapTextureColor(fb, target, 0, texture, CoordinateFor(fb), 0)
    \/ \E target \in Target, renderbuffer \in Renderbuffers :
            attachRenderbufferDepthStencil(2, target, GL_DEPTH_STENCIL_ATTACHMENT,
                                           renderbuffer)
    \/ clear
    \/ blitSameRectangle(<<0, 0>>, <<Width, Height>>, GL_COLOR_BUFFER_BIT)
    \/ read(<<0, 0>>, <<Width, Height>>)

SpecDisplace == Init /\ [][NextDisplace]_vars

(***************************************************************************)
(* The static clear mask: every feature is enabled and disabled, and in    *)
(* between the bound framebuffer is cleared with clear() and with          *)
(* clear(mask), framebuffer 1 is bound, given a color texture, mapped and  *)
(* destroyed, and the default framebuffer is bound.                        *)
(***************************************************************************)
NextMask ==
    \/ \E feature \in Feature, enable \in BOOLEAN : setFeature(feature, enable)
    \/ clear
    \/ clearWithMask(GL_DEPTH_BUFFER_BIT + GL_STENCIL_BUFFER_BIT)
    \/ bindDefault(GL_DRAW_FRAMEBUFFER)
    \/ bind(1, GL_DRAW_FRAMEBUFFER)
    \/ \E texture \in Textures2D :
            attachTexture2DColor(1, GL_DRAW_FRAMEBUFFER, 0, texture, 0)
    \/ mapForDraw(1, <<-1, 0>>)
    \/ Destructor(1)

SpecMask == Init /\ [][NextMask]_vars

(***************************************************************************)
(* What a recorded call asks for, read off its arguments.                  *)
(***************************************************************************)
ColorAttachOps ==
    {"attachRenderbufferColor", "attachTexture1DColor", "attachTexture2DColor",
     "attachCubeMapTextureColor", "attachTexture3DColor"}
DepthStencilAttachOps ==
    {"attachRenderbufferDepthStencil", "attachTexture1DDepthStencil",
     "attachTexture2DDepthStencil", "attachCubeMapTextureDepthStencil",
     "attachTexture3DDepthStencil"}
AttachOps == ColorAttachOps \cup DepthStencilAttachOps

\* The slot an attach call names: a color slot, depth, stencil or the combined one.
RequestedSlot(c) ==
    IF c.op \in ColorAttachOps THEN GL_COLOR_ATTACHMENT0 + c.args[1] ELSE c.args[1]

\* The resource reference an attach call names: handle, kind, mip level, face/layer.
RequestedImage(c) ==
    IF c.op \in {"attachRenderbufferColor", "attachRenderbufferDepthStencil"}
        THEN [kind |-> "renderbuffer", id |-> c.args[2], textarget |-> GL_RENDERBUFFER,
              level |-> 0, layer |-> 0]
    ELSE IF c.op \in {"attachTexture1DColor", "attachTexture1DDepthStencil"}
        THEN [kind |-> "texture", id |-> c.args[2], textarget |-> GL_TEXTURE_1D,
              level |-> c.args[3], layer |-> 0]
    ELSE IF c.op \in {"attachTexture2DColor", "attachTexture2DDepthStencil"}
        THEN [kind |-> "texture", id |-> c.args[2], textarget |-> GL_TEXTURE_2D,
              level |-> c.args[3], layer |-> 0]
    ELSE IF c.op \in {"attachCubeMapTextureColor", "attachCubeMapTextureDepthStencil"}
        THEN [kind |-> "texture", id |-> c.args[2], textarget |-> c.args[3],
              level |-> c.args[4], layer |-> 0]
    ELSE [kind |-> "texture", id |-> c.args[2], textarget |-> GL_TEXTURE_3D,
          level |-> c.args[3], layer |-> c.args[4]]

\* The slots of a target that can be queried: its points and the combined slot.
Slots == AttachmentPoints \cup {GL_DEPTH_STENCIL_ATTACHMENT}

\* The attachment points a slot stands for.
PointsOf(slot) ==
    IF slot = GL_DEPTH_STENCIL_ATTACHMENT
        THEN {GL_DEPTH_ATTACHMENT, GL_STENCIL_ATTACHMENT}
        ELSE {slot}

\* Target T is bound to the role a call names (to both roles for ReadDraw).
BoundToRole(fb, target, readBound, drawBound) ==
    /\ target \in {GL_READ_FRAMEBUFFER, GL_FRAMEBUFFER} => readBound = fb
    /\ target \in {GL_DRAW_FRAMEBUFFER, GL_FRAMEBUFFER} => drawBound = fb

(***************************************************************************)
(* C1.  Every attach function called on target T with role r has T bound   *)
(* to r when the native attach is issued: the step leaves T bound to r,    *)
(* records the attachment on T, changes the attachments of no other        *)
(* target and raises no native error, whatever was bound before.           *)
(***************************************************************************)
C1_AttachBindsFirst ==
    [][call'.op \in AttachOps =>
        /\ BoundToRole(call'.fb, call'.target, readFb', drawFb')
        /\ \A p \in PointsOf(RequestedSlot(call')) :
               attachments'[call'.fb][p] = RequestedImage(call')
        /\ \A h \in Handles \ {call'.fb} : attachments'[h] = attachments[h]
        /\ glError' = glError]_vars

\* Another target is bound to both roles and carries an attachment; an attach on
\* T through the Draw role is taken from there and lands on T alone.
C1_Witness ==
    \E fb \in Handles : \E other \in Handles \ {fb} :
        /\ readFb = other /\ drawFb = other
        /\ attachments[other] # EmptyAttachments
        /\ ENABLED (/\ attachTexture2DColor(fb, GL_DRAW_FRAMEBUFFER, 0, 3, 0)
                    /\ drawFb' = fb
                    /\ attachments'[fb][GL_COLOR_ATTACHMENT0]
                         = TextureImage(GL_TEXTURE_2D, 3, 0, 0)
                    /\ attachments'[other] = attachments[other])

(***************************************************************************)
(* C3.  bind and bindDefault with Target::Read leave the Draw binding      *)
(* unchanged, and with Target::Draw leave the Read binding unchanged.      *)
(***************************************************************************)
C3_BindLeavesOtherRole ==
    [][call'.op \in {"bind", "bindDefault"} =>
        /\ call'.target = GL_READ_FRAMEBUFFER => drawFb' = drawFb
        /\ call'.target = GL_DRAW_FRAMEBUFFER => readFb' = readFb]_vars

\* T was just bound for reading while another custom target stays bound for drawing.
C3_Witness ==
    /\ call.op = "bind" /\ call.target = GL_READ_FRAMEBUFFER
    /\ readFb = call.fb
    /\ drawFb \in Handles \ {call.fb}

(***************************************************************************)
(* C4.  bindDefault(r) leaves role r (both roles for ReadDraw) bound to    *)
(* the default framebuffer, handle 0; the custom target bound before stays *)
(* alive with its attachments and its mappings.                            *)
(***************************************************************************)
C4_BindDefault ==
    [][call'.op = "bindDefault" =>
        /\ BoundToRole(0, call'.target, readFb', drawFb')
        /\ alive' = alive
        /\ attachments' = attachments
        /\ drawBuffers' = drawBuffers
        /\ readBuffer' = readBuffer]_vars

\* A custom target with an attachment is Draw-bound, and bindDefault(Draw) takes
\* the role from it.
C4_Witness ==
    \E fb \in Handles :
        /\ drawFb = fb
        /\ attachments[fb] # EmptyAttachments
        /\ ENABLED (/\ bindDefault(GL_DRAW_FRAMEBUFFER)
                    /\ drawFb' = 0
                    /\ fb \in alive'
                    /\ attachments'[fb] = attachments[fb])

(***************************************************************************)
(* C7.  Right after an attach of resource reference R to slot s of target  *)
(* T, querying slot s of T returns R: the same handle, kind, mip level and *)
(* face or layer.                                                          *)
(***************************************************************************)
C7_AttachRoundTrip ==
    call.op \in AttachOps =>
        SlotContents(attachments, call.fb, RequestedSlot(call)) = RequestedImage(call)

\* A layer of a 3D texture was just attached to the highest color slot.
C7_Witness ==
    /\ call.op = "attachTexture3DColor"
    /\ call.args = <<MaxColorAttachmentId, 5, MaxMipLevel, MaxLayer>>
    /\ SlotContents(attachments, call.fb, GL_COLOR_ATTACHMENT0 + MaxColorAttachmentId)
         = [kind |-> "texture", id |-> 5, textarget |-> GL_TEXTURE_3D,
            level |-> MaxMipLevel, layer |-> MaxLayer]

(***************************************************************************)
(* C8.  As claimed: an attach to slot s of T leaves every other slot of T  *)
(* (the combined depth/stencil slot counted as a slot) and every slot of   *)
(* every other target as it was.                                           *)
(***************************************************************************)
C8_Original ==
    [][call'.op \in AttachOps =>
        \A h \in Handles, s \in Slots :
            (h # call'.fb \/ s # RequestedSlot(call'))
                => SlotContents(attachments', h, s) = SlotContents(attachments, h, s)]_vars

(***************************************************************************)
(* C8, amended.  An attach to slot s of T puts the attached resource in    *)
(* the attachment points s stands for (the depth and the stencil point for *)
(* the combined slot, s itself otherwise), replacing whatever they held,   *)
(* and leaves every other point of T and every point of every other target *)
(* as it was.                                                              *)
(***************************************************************************)
C8_AttachReplaces ==
    [][call'.op \in AttachOps =>
        \A h \in Handles, p \in AttachmentPoints :
            attachments'[h][p] =
                IF h = call'.fb /\ p \in PointsOf(RequestedSlot(call'))
                    THEN RequestedImage(call')
                    ELSE attachments[h][p]]_vars

\* A slot of T holds a renderbuffer, another slot of T and the other target hold
\* images too, and a texture attach to the first slot replaces the renderbuffer.
C8_Witness ==
    \E fb \in Handles :
        /\ attachments[fb][GL_DEPTH_ATTACHMENT] = RenderbufferImage(1)
        /\ \E h \in Handles, p \in AttachmentPoints :
              /\ (h # fb \/ p # GL_DEPTH_ATTACHMENT)
              /\ attachments[h][p] # NoAttachment
        /\ ENABLED (/\ attachTexture2DDepthStencil(fb, GL_READ_FRAMEBUFFER,
                                                  GL_DEPTH_ATTACHMENT, 3, MaxMipLevel)
                    /\ attachments'[fb][GL_DEPTH_ATTACHMENT]
                         = TextureImage(GL_TEXTURE_2D, 3, MaxMipLevel, 0))

(***************************************************************************)
(* C9: the no-argument clear() leaves the depth buffer of the Draw-bound   *)
(* framebuffer as it was when DepthTest is disabled and sets every pixel   *)
(* of it to the current clear depth when DepthTest is enabled; likewise    *)
(* the stencil buffer with StencilTest and the current clear stencil.      *)
(* The tests are toggled by any sequence of setFeature calls.              *)
(***************************************************************************)
C9_ClearFollowsTests ==
    [][call'.op = "clear" =>
        LET depth == DepthBufferOf(drawFb)
            stencil == StencilBufferOf(drawFb)
        IN /\ depth # NoAttachment =>
                ImageOf(content', depth).depth =
                    IF GL_DEPTH_TEST \in enabled
                        THEN [px \in Pixels |-> clearValues.depth]
                        ELSE ImageOf(content, depth).depth
           /\ stencil # NoAttachment =>
                ImageOf(content', stencil).stencil =
                    IF GL_STENCIL_TEST \in enabled
                        THEN [px \in Pixels |-> clearValues.stencil]
                        ELSE ImageOf(content, stencil).stencil]_vars

\* clear() was called with DepthTest enabled and StencilTest disabled on a
\* framebuffer object whose stencil buffer had been cleared before to another
\* value than the current clear stencil: the depth is the clear depth, the
\* stencil is still the old value.
C9_Witness ==
    /\ call.op = "clear"
    /\ drawFb \in Handles
    /\ GL_DEPTH_TEST \in enabled
    /\ GL_STENCIL_TEST \notin enabled
    /\ DepthBufferOf(drawFb) # NoAttachment
    /\ StencilBufferOf(drawFb) # NoAttachment
    /\ \A px \in Pixels :
        /\ ImageOf(content, DepthBufferOf(drawFb)).depth[px] = clearValues.depth
        /\ ImageOf(content, StencilBufferOf(drawFb)).stencil[px]
                \notin {Undefined, clearValues.stencil}

(***************************************************************************)
(* C10: clear(mask) clears exactly the buffers named in mask on the        *)
(* Draw-bound framebuffer, for every subset mask of {Color, Depth,         *)
(* Stencil} and whether the tests are enabled or not: the color buffers    *)
(* mapped for drawing, the depth buffer and the stencil buffer take the    *)
(* clear value if named, every other plane of every image stays as it was, *)
(* and the static mask of the no-argument clear() is not altered.          *)
(***************************************************************************)
C10_ClearWithMask ==
    [][call'.op = "clearWithMask" =>
        LET mask == call'.args[1]
            color == IF HasBit(mask, GL_COLOR_BUFFER_BIT) THEN ColorBuffersOf(drawFb) ELSE {}
            depth == IF HasBit(mask, GL_DEPTH_BUFFER_BIT) THEN {DepthBufferOf(drawFb)} ELSE {}
            stencil == IF HasBit(mask, GL_STENCIL_BUFFER_BIT)
                        THEN {StencilBufferOf(drawFb)} ELSE {}
            images == (DOMAIN content \cup DOMAIN content' \cup ColorBuffersOf(drawFb)
                        \cup {DepthBufferOf(drawFb), StencilBufferOf(drawFb)})
                            \ {NoAttachment}
        IN /\ clearMask' = clearMask
           /\ \A image \in images :
                /\ ImageOf(content', image).color =
                    IF image \in color THEN [px \in Pixels |-> clearValues.color]
                    ELSE ImageOf(content, image).color
                /\ ImageOf(content', image).depth =
                    IF image \in depth THEN [px \in Pixels |-> clearValues.depth]
                    ELSE ImageOf(content, image).depth
                /\ ImageOf(content', image).stencil =
                    IF image \in stencil THEN [px \in Pixels |-> clearValues.stencil]
                    ELSE ImageOf(content, image).stencil]_vars

\* clear(Depth) was called with both tests disabled on a framebuffer object
\* whose stencil buffer had been cleared before: the depth is the clear depth,
\* the stencil holds its earlier value and the color buffer was never written.
C10_Witness ==
    /\ call.op = "clearWithMask"
    /\ call.args = <<GL_DEPTH_BUFFER_BIT>>
    /\ drawFb \in Handles
    /\ enabled \cap {GL_DEPTH_TEST, GL_STENCIL_TEST} = {}
    /\ clearMask = GL_COLOR_BUFFER_BIT
    /\ DepthBufferOf(drawFb) # NoAttachment
    /\ StencilBufferOf(drawFb) # NoAttachment
    /\ ColorBuffersOf(drawFb) # {}
    /\ \A px \in Pixels :
        /\ ImageOf(content, DepthBufferOf(drawFb)).depth[px] = clearValues.depth
        /\ ImageOf(content, StencilBufferOf(drawFb)).stencil[px] # Undefined
        /\ \A image \in ColorBuffersOf(drawFb) :
                ImageOf(content, image).color[px][1] = Undefined

(***************************************************************************)
(* C5: in every reachable state each role is bound to the default          *)
(* framebuffer or to a framebuffer object that has not been destroyed.     *)
(* Destroying an object bound to one or both roles leaves each role it     *)
(* occupied bound to the default framebuffer, and a clear issued while the *)
(* default framebuffer is Draw-bound writes buffers of the default         *)
(* framebuffer and nothing else.                                           *)
(***************************************************************************)
C5_RolesBoundToLiveTargets ==
    /\ [](readFb \in alive \cup {0} /\ drawFb \in alive \cup {0})
    /\ [][call'.op = "~Framebuffer" =>
            /\ call'.fb \notin alive'
            /\ readFb = call'.fb => readFb' = 0
            /\ drawFb = call'.fb => drawFb' = 0]_vars
    /\ [][call'.op = "clearWithMask" /\ drawFb = 0 =>
            /\ \E buffer \in DefaultColorBuffers :
                    ImageOf(content', DefaultBuffer(buffer)).color
                        = [px \in Pixels |-> clearValues.color]
            /\ \A img \in DOMAIN content \cup DOMAIN content' :
                    ImageOf(content', img) # ImageOf(content, img) => img.kind = "default"
            /\ UNCHANGED <<objectVars, bindingVars>>]_vars

\* A framebuffer object bound to both roles is about to be destroyed, and the
\* destruction leaves both roles bound to the default framebuffer.
C5_Witness ==
    \E fb \in Handles :
        /\ readFb = fb
        /\ drawFb = fb
        /\ ENABLED (Destructor(fb) /\ readFb' = 0 /\ drawFb' = 0)

(***************************************************************************)
(* C6: destroying framebuffer object T does not change the binding of a    *)
(* role bound to another framebuffer than T, and does not change the       *)
(* attachments, the draw mapping or the read mapping of any other          *)
(* framebuffer object, nor the mappings of the default framebuffer.        *)
(***************************************************************************)
C6_DestroyLeavesOthers ==
    [][call'.op = "~Framebuffer" =>
        LET T == call'.fb IN
        /\ readFb # T => readFb' = readFb
        /\ drawFb # T => drawFb' = drawFb
        /\ \A other \in Handles \ {T} : attachments'[other] = attachments[other]
        /\ \A other \in (Handles \cup {0}) \ {T} :
            /\ drawBuffers'[other] = drawBuffers[other]
            /\ readBuffer'[other] = readBuffer[other]]_vars

\* T is about to be destroyed while it is Read-bound and another framebuffer
\* object, which holds an attachment and was mapped, is Draw-bound; the
\* destruction leaves the Draw role and the other object as they are.
C6_Witness ==
    \E T \in Handles : \E other \in Handles \ {T} :
        /\ readFb = T
        /\ drawFb = other
        /\ attachments[other] # EmptyAttachments
        /\ attachments[T] # EmptyAttachments
        /\ drawBuffers[other] # InitialDrawBuffers(other)
        /\ readBuffer[other] # InitialReadBuffer(other)
        /\ ENABLED (Destructor(T) /\ drawFb' = other /\ readFb' = 0
                        /\ attachments'[other] = attachments[other])

(***************************************************************************)
(* The role an operation goes through, and the framebuffer bound to that   *)
(* role when its native call runs (an attach or map call binds first).     *)
(***************************************************************************)
ClearOps == {"clear", "clearWithMask"}
BlitOps == {"blit", "blitSameRectangle"}
MapOps == {"mapForDraw", "mapForRead", "mapDefaultForDraw", "mapDefaultForRead"}
RoleOps == ClearOps \cup BlitOps \cup MapOps \cup AttachOps \cup {"read"}
RoleOf(c) ==
    IF c.op \in ClearOps \cup BlitOps THEN GL_DRAW_FRAMEBUFFER
    ELSE IF c.op = "read" THEN GL_READ_FRAMEBUFFER
    ELSE c.target
\* The images a framebuffer has: its attachments, or the window's buffers.
ImagesOf(fb) ==
    IF fb = 0
        THEN {DefaultBuffer(b) :
                b \in DefaultColorBuffers \cup {GL_DEPTH_ATTACHMENT, GL_STENCIL_ATTACHMENT}}
        ELSE {attachments[fb][p] : p \in AttachmentPoints} \ {NoAttachment}
\* Framebuffer T has the attachments and the mappings it had.
SameConfiguration(T) ==
    /\ T # 0 => attachments'[T] = attachments[T]
    /\ drawBuffers'[T] = drawBuffers[T]
    /\ readBuffer'[T] = readBuffer[T]

(***************************************************************************)
(* C2 as stated: bind(r) on T2 leaves r bound to T2, and a clear, blit,    *)
(* read, attach or map operation through role r changes nothing of a       *)
(* framebuffer that is not bound to r: not its attachments, not its        *)
(* mappings, not the contents of any resource attached to it.              *)
(***************************************************************************)
C2_Original ==
    [][/\ call'.op = "bind" => BoundToRole(call'.fb, call'.target, readFb', drawFb')
       /\ call'.op \in RoleOps =>
            LET T2 == BoundTo([read |-> readFb', draw |-> drawFb'], RoleOf(call')) IN
            \A T1 \in (Handles \cup {0}) \ {T2} :
                /\ SameConfiguration(T1)
                /\ \A img \in ImagesOf(T1) :
                        ImageOf(content', img) = ImageOf(content, img)]_vars

(***************************************************************************)
(* C2: bind(r) on T2 leaves r bound to T2, and a clear, blit, read, attach *)
(* or map operation through role r changes nothing of a framebuffer T1     *)
(* that is not bound to r: not its attachments, not its mappings, and not  *)
(* the contents of a resource attached to T1 unless the same resource is   *)
(* attached to T2 as well.  A read takes its pixels from T2.               *)
(***************************************************************************)
C2_RebindRedirects ==
    [][/\ call'.op = "bind" => BoundToRole(call'.fb, call'.target, readFb', drawFb')
       /\ call'.op \in RoleOps =>
            LET T2 == BoundTo([read |-> readFb', draw |-> drawFb'], RoleOf(call')) IN
            \A T1 \in (Handles \cup {0}) \ {T2} :
                /\ SameConfiguration(T1)
                /\ \A img \in ImagesOf(T1) \ ImagesOf(T2) :
                        ImageOf(content', img) = ImageOf(content, img)
       /\ call'.op = "read" /\ FramebufferComplete(readFb) =>
            \A px \in Pixels \cap DOMAIN image2D'.data :
                image2D'.data[px] = ImageOf(content, ReadColorBufferOf(readFb)).color[px]
      ]_vars

\* T1 was Draw-bound and cleared, T2 (holding another image) was then bound
\* for drawing in its place and is about to be cleared: the clear writes T2's
\* color buffer and leaves T1's as it is.
C2_Witness ==
    \E T1 \in Handles : \E T2 \in Handles \ {T1} :
        /\ call.op = "bind"
        /\ call.fb = T2
        /\ drawFb = T2
        /\ ColorBuffersOf(T1) # {}
        /\ ColorBuffersOf(T2) # {}
        /\ ColorBuffersOf(T1) \cap ColorBuffersOf(T2) = {}
        /\ \A img \in ColorBuffersOf(T1) : img \in DOMAIN content
        /\ ENABLED (/\ clearWithMask(GL_COLOR_BUFFER_BIT)
                    /\ \A img \in ColorBuffersOf(T1) : content'[img] = content[img]
                    /\ \A img \in ColorBuffersOf(T2) : img \in DOMAIN content')

(***************************************************************************)
(* The two blit functions.                                                 *)
(***************************************************************************)
\* C11: blit(bottomLeft, topRight, mask) produces the same resulting state as
\* blit(bottomLeft, topRight, bottomLeft, topRight, mask, NearestNeighbor)
\* would from the same state, for every rectangle, mask, binding and mapping:
\* every step of the three-argument blit changes the GL state exactly as the
\* six-argument blit with these arguments does.
C11_BlitSameRectangle ==
    [][call'.op = "blitSameRectangle"
        => LET bottomLeft == call'.args[1]
               topRight == call'.args[2]
               mask == call'.args[3]
           IN  blitRectangles(bottomLeft, topRight, bottomLeft, topRight, mask,
                              GL_NEAREST)]_vars

\* A three-argument blit of the first column has copied color between two
\* different complete framebuffers whose pixels differed, so that the
\* destination now holds both copied and older pixels.
C11_Witness ==
    /\ call.op = "blitSameRectangle"
    /\ call.args = <<<<-1, 0>>, <<1, Height + 1>>, GL_COLOR_BUFFER_BIT>>
    /\ readFb # drawFb
    /\ glError = "GL_NO_ERROR"
    /\ \E img \in ColorBuffersOf(drawFb) :
            /\ ImageOf(content, img).color[<<0, 0>>]
                    = ImageOf(content, ReadColorBufferOf(readFb)).color[<<0, 0>>]
            /\ ImageOf(content, img).color[<<1, 0>>]
                    # ImageOf(content, ReadColorBufferOf(readFb)).color[<<1, 0>>]
            /\ ImageOf(content, img).color[<<0, 0>>] # BlankImage.color[<<0, 0>>]

(***************************************************************************)
(* Draw and read mappings.                                                 *)
(***************************************************************************)
\* The draw mapping glDrawBuffers recorded, as mapForDraw names it: the number
\* of the color attachment, -1 for an output that is not used.
DrawMapping(bufs) ==
    [i \in DOMAIN bufs |->
        IF bufs[i] = GL_NONE THEN -1 ELSE bufs[i] - GL_COLOR_ATTACHMENT0]
NoSlotTwice(q) == \A i, j \in DOMAIN q : i # j /\ q[i] = q[j] => q[i] = -1

SelectedSlots(q) == {GL_COLOR_ATTACHMENT0 + q[i] : i \in {k \in DOMAIN q : q[k] # -1}}

\* C13: an entry of none (-1 for mapForDraw, DefaultDrawAttachment::None for
\* mapDefaultForDraw) at position i of the draw mapping makes output i unused:
\* right after the call the mapping has GL_NONE at position i, not a color
\* attachment and not the value before GL_COLOR_ATTACHMENT0, and the color
\* buffers that receive output are those of the other entries and no more.
C13_NoneIsUnused ==
    /\ call.op = "mapForDraw" /\ NoSlotTwice(call.args[1])
        => LET T == call.fb
               q == call.args[1]
           IN  /\ DOMAIN drawBuffers[T] = DOMAIN q
               /\ \A i \in DOMAIN q :
                    q[i] = -1 => /\ drawBuffers[T][i] = GL_NONE
                                 /\ drawBuffers[T][i] # GL_COLOR_ATTACHMENT0 - 1
               /\ ColorBuffersOf(T)
                    = {attachments[T][p] : p \in SelectedSlots(q) \cap AttachmentPoints}
                        \ {NoAttachment}
    /\ call.op = "mapDefaultForDraw"
        => LET q == call.args[1]
           IN  /\ DOMAIN drawBuffers[0] = DOMAIN q
               /\ \A i \in DOMAIN q : q[i] = GL_NONE => drawBuffers[0][i] = GL_NONE
               /\ ColorBuffersOf(0)
                    = {DefaultBuffer(q[i]) : i \in {k \in DOMAIN q : q[k] # GL_NONE}}

\* mapForDraw({-1}) was called on a framebuffer that has a texture attached as
\* color attachment 0: its only output is unused, and no color buffer of it
\* receives output.
C13_Witness ==
    /\ call.op = "mapForDraw"
    /\ call.args[1] = <<-1>>
    /\ attachments[call.fb][GL_COLOR_ATTACHMENT0] # NoAttachment
    /\ drawBuffers[call.fb] = <<GL_NONE>>
    /\ ColorBuffersOf(call.fb) = {}

\* C14: no map function is applied to a framebuffer other than the one it is
\* called on (the default one for the static functions), whatever is bound
\* when it is called: the call leaves that framebuffer bound to the role and
\* holding the mapping asked for, and the draw and read mappings of every other
\* framebuffer as they were.
C14_MapAppliesToItsTarget ==
    [][call'.op \in MapOps
        => LET T == call'.fb
               q == call'.args[1]
           IN  /\ BoundToRole(T, call'.target, readFb', drawFb')
               /\ \A h \in (Handles \cup {0}) \ {T} :
                    /\ drawBuffers'[h] = drawBuffers[h]
                    /\ readBuffer'[h] = readBuffer[h]
               /\ call'.op = "mapForDraw" /\ NoSlotTwice(q)
                    => DrawMapping(drawBuffers'[T]) = q
               /\ call'.op = "mapDefaultForDraw" => T = 0 /\ drawBuffers'[0] = q
               /\ call'.op = "mapForRead" => readBuffer'[T] = GL_COLOR_ATTACHMENT0 + q
               /\ call'.op = "mapDefaultForRead" => T = 0 /\ readBuffer'[0] = q]_vars

\* Framebuffer 2 is Draw-bound: mapForDraw({-1}) on framebuffer 1 maps
\* framebuffer 1 and not framebuffer 2, and mapDefaultForDraw maps the default
\* framebuffer and not framebuffer 2.
C14_Witness ==
    /\ drawFb = 2
    /\ drawBuffers[1] # <<GL_NONE>>
    /\ drawBuffers[0] # <<GL_NONE, GL_FRONT_LEFT>>
    /\ ENABLED (/\ mapForDraw(1, <<-1>>)
                /\ drawBuffers'[1] = <<GL_NONE>>
                /\ drawBuffers'[2] = drawBuffers[2]
                /\ drawFb' = 1)
    /\ ENABLED (/\ mapDefaultForDraw(<<GL_NONE, GL_FRONT_LEFT>>)
                /\ drawBuffers'[0] = <<GL_NONE, GL_FRONT_LEFT>>
                /\ drawBuffers'[2] = drawBuffers[2]
                /\ drawFb' = 0)

\* C15: after mapForRead(c) called on T in any state, T is the Read-bound
\* framebuffer and the read mapping of T is color attachment c; the Draw
\* binding, the draw mapping of T and the read and draw mappings of every other
\* framebuffer are as before.
C15_MapForRead ==
    [][call'.op = "mapForRead"
        => LET T == call'.fb
               c == call'.args[1]
           IN  /\ readFb' = T
               /\ readBuffer'[T] = GL_COLOR_ATTACHMENT0 + c
               /\ drawFb' = drawFb
               /\ drawBuffers' = drawBuffers
               /\ \A h \in (Handles \cup {0}) \ {T} : readBuffer'[h] = readBuffer[h]]_vars

\* Framebuffer 2 is bound to both roles and framebuffer 1 reads from color
\* attachment 0: mapForRead(15) on framebuffer 1 binds it for reading, maps it
\* to color attachment 15 and leaves framebuffer 2 Draw-bound.
C15_Witness ==
    /\ readFb = 2
    /\ drawFb = 2
    /\ readBuffer[1] = GL_COLOR_ATTACHMENT0
    /\ ENABLED (/\ mapForRead(1, MaxColorAttachmentId)
                /\ readFb' = 1
                /\ drawFb' = 2
                /\ readBuffer'[1] = GL_COLOR_ATTACHMENT0 + MaxColorAttachmentId
                /\ readBuffer'[2] = readBuffer[2])

\* C16: the draw mapping and the read mapping of a framebuffer persist until
\* the next map call on that framebuffer: binding any framebuffer to any role,
\* attaching, map calls on other framebuffers, clear, blit and the pipeline
\* state setters leave them as they are.
C16_MappingsPersist ==
    [][\A T \in Handles \cup {0} :
            ~(call'.op \in MapOps /\ call'.fb = T)
                => /\ drawBuffers'[T] = drawBuffers[T]
                   /\ readBuffer'[T] = readBuffer[T]]_vars

\* Framebuffer 1 was mapped for drawing and for reading and is bound to no
\* role any more; the Draw-bound framebuffer has been cleared since; and
\* binding framebuffer 1 again finds the mappings last set on it.
C16_Witness ==
    /\ drawBuffers[1] = <<GL_NONE, GL_COLOR_ATTACHMENT0>>
    /\ readBuffer[1] = GL_COLOR_ATTACHMENT0 + MaxColorAttachmentId
    /\ readFb # 1
    /\ drawFb # 1
    /\ call.op \in ClearOps
    /\ ENABLED (/\ bind(1, GL_FRAMEBUFFER)
                /\ drawFb' = 1
                /\ readFb' = 1
                /\ drawBuffers'[1] = <<GL_NONE, GL_COLOR_ATTACHMENT0>>
                /\ readBuffer'[1] = GL_COLOR_ATTACHMENT0 + MaxColorAttachmentId)

(***************************************************************************)
(* Binding to both roles.                                                  *)
(***************************************************************************)
\* C17: a framebuffer can be bound to the Read and the Draw role at once:
\* bind(Target::ReadDraw) on T leaves T Read-bound and Draw-bound, and so does
\* bind(Target::Read) on T followed by bind(Target::Draw) on T, and
\* bind(Target::Draw) on T followed by bind(Target::Read) on T.
C17_BindReadDraw ==
    call.op = "bind"
        => LET T == call.fb
               other == IF call.target = GL_READ_FRAMEBUFFER THEN GL_DRAW_FRAMEBUFFER
                        ELSE GL_READ_FRAMEBUFFER
           IN  IF call.target = GL_FRAMEBUFFER
                    THEN readFb = T /\ drawFb = T
               ELSE /\ ENABLED bind(T, other)
                    /\ ~ENABLED (bind(T, other) /\ ~(readFb' = T /\ drawFb' = T))

\* Framebuffer 2 is Read-bound and the default framebuffer Draw-bound, and
\* bind(Target::ReadDraw) on framebuffer 1 binds it to both roles.
C17_Witness ==
    /\ readFb = 2
    /\ drawFb = 0
    /\ ENABLED (bind(1, GL_FRAMEBUFFER) /\ readFb' = 1 /\ drawFb' = 1)

(***************************************************************************)
(* Pipeline state.                                                         *)
(***************************************************************************)
\* C18: setFeature is idempotent and raises no error: right after
\* setFeature(f, b), calling setFeature(f, b) again changes neither the set of
\* enabled features nor the mask clear() uses nor anything else; and a
\* setFeature(f, b) step leaves f enabled exactly if b, every other feature as
\* it was, and the error flag as it was.
C18_SetFeatureIdempotent ==
    /\ [](call.op = "setFeature"
            => LET f == call.args[1]
                   b == call.args[2]
               IN  /\ ENABLED setFeature(f, b)
                   /\ ~ENABLED (/\ setFeature(f, b)
                                /\ ~(/\ enabled' = enabled
                                      /\ clearMask' = clearMask
                                      /\ glError' = glError
                                      /\ content' = content)))
    /\ [][call'.op = "setFeature"
            => LET f == call'.args[1]
                   b == call'.args[2]
               IN  /\ (f \in enabled') = b
                   /\ enabled' \ {f} = enabled \ {f}
                   /\ glError' = glError]_vars

\* The depth test was enabled while blending was enabled and the stencil test
\* was not, and clear() would now clear color and depth.
C18_Witness ==
    /\ call.op = "setFeature"
    /\ call.args = <<GL_DEPTH_TEST, TRUE>>
    /\ enabled = {GL_DITHER, GL_BLEND, GL_DEPTH_TEST}
    /\ clearMask = GL_COLOR_BUFFER_BIT + GL_DEPTH_BUFFER_BIT
    /\ glError = "GL_NO_ERROR"

\* C19: before any setter is called, dithering is enabled and blending, the
\* depth test, the stencil test, face culling and depth clamping are not; the
\* clear color is opaque black, the clear depth 1 and the clear stencil 0; the
\* color, depth and stencil write masks are fully open; and a clear() then
\* writes the clear color to every pixel of the color buffers of the Draw-bound
\* framebuffer and leaves every depth and stencil value as it was.
C19_InitialState ==
    /\ [](/\ GL_DITHER \in enabled
           /\ enabled \cap {GL_BLEND, GL_DEPTH_TEST, GL_STENCIL_TEST, GL_CULL_FACE,
                             GL_DEPTH_CLAMP} = {}
           /\ clearValues.color = <<0, 0, 0, One>>
           /\ clearValues.depth = One
           /\ clearValues.stencil = 0
           /\ writeMasks.color = <<TRUE, TRUE, TRUE, TRUE>>
           /\ writeMasks.depth = TRUE
           /\ writeMasks.front = 2^StencilBits - 1
           /\ writeMasks.back = 2^StencilBits - 1)
    /\ [][call'.op = "clear"
            => /\ FramebufferComplete(drawFb)
                    => \A img \in ColorBuffersOf(drawFb) : \A px \in Pixels :
                            ImageOf(content', img).color[px] = <<0, 0, 0, One>>
               /\ \A img \in DOMAIN content' \cup DOMAIN content :
                    /\ ImageOf(content', img).depth = ImageOf(content, img).depth
                    /\ ImageOf(content', img).stencil = ImageOf(content, img).stencil]_vars

\* clear() was called before any setter, on a framebuffer object with a color
\* texture and a depth-stencil renderbuffer: the texture holds opaque black,
\* the depth buffer is unwritten, and the stencil buffer holds what an earlier
\* clear(Clear::Stencil) wrote.
C19_Witness ==
    /\ call.op = "clear"
    /\ drawFb = 1
    /\ attachments[1][GL_COLOR_ATTACHMENT0] # NoAttachment
    /\ attachments[1][GL_DEPTH_ATTACHMENT] # NoAttachment
    /\ \A px \in Pixels :
        /\ ImageOf(content, attachments[1][GL_COLOR_ATTACHMENT0]).color[px]
                = <<0, 0, 0, One>>
        /\ ImageOf(content, attachments[1][GL_DEPTH_ATTACHMENT]).depth[px] = Undefined
        /\ ImageOf(content, attachments[1][GL_STENCIL_ATTACHMENT]).stencil[px] = 0

(***************************************************************************)
(* End to end.                                                             *)
(***************************************************************************)
\* C20: when framebuffer T has a color texture on color attachment 0 and a
\* depth renderbuffer on the depth attachment, is bound for drawing, has the
\* draw mapping {0}, and the depth test is enabled, clear() leaves every pixel
\* of the texture at the clear color and every value of the renderbuffer at the
\* clear depth, whatever clear color and depth were set and however the
\* attach and map calls rebound the roles before.
C20_EndToEnd ==
    [][\A T \in Handles :
            /\ call'.op = "clear"
            /\ drawFb = T
            /\ attachments[T][GL_COLOR_ATTACHMENT0].kind = "texture"
            /\ attachments[T][GL_DEPTH_ATTACHMENT].kind = "renderbuffer"
            /\ drawBuffers[T] = <<GL_COLOR_ATTACHMENT0>>
            /\ GL_DEPTH_TEST \in enabled
            => \A px \in Pixels :
                /\ ImageOf(content', attachments[T][GL_COLOR_ATTACHMENT0]).color[px]
                        = clearValues.color
                /\ ImageOf(content', attachments[T][GL_DEPTH_ATTACHMENT]).depth[px]
                        = clearValues.depth]_vars

\* clear() was called with framebuffer 1 bound for drawing and framebuffer 0
\* for reading, the depth test enabled, and a clear color and depth other than
\* the initial ones: the texture and the renderbuffer of framebuffer 1 hold them.
C20_Witness ==
    /\ call.op = "clear"
    /\ drawFb = 1
    /\ readFb = 0
    /\ drawBuffers[1] = <<GL_COLOR_ATTACHMENT0>>
    /\ GL_DEPTH_TEST \in enabled
    /\ clearValues.color = <<1, One, 0, One>>
    /\ clearValues.depth = 0
    /\ attachments[1][GL_COLOR_ATTACHMENT0].kind = "texture"
    /\ attachments[1][GL_DEPTH_ATTACHMENT].kind = "renderbuffer"
    /\ \A px \in Pixels :
        /\ ImageOf(content, attachments[1][GL_COLOR_ATTACHMENT0]).color[px]
                = <<1, One, 0, One>>
        /\ ImageOf(content, attachments[1][GL_DEPTH_ATTACHMENT]).depth[px] = 0

(***************************************************************************)
(* Blitting to the mapped draw buffers.                                    *)
(***************************************************************************)
\* The mask of a recorded blit call.
BlitMaskOf(c) == IF c.op = "blit" THEN c.args[5] ELSE c.args[3]

\* C21: a blit of the whole image that raises no error copies the color plane,
\* if the mask names it, from the read buffer of the Read-bound framebuffer to
\* the image of every color attachment the draw mapping of the Draw-bound
\* framebuffer names, whatever the position in the mapping; an image attached
\* to the Draw-bound framebuffer at attachments the mapping does not name
\* does not change, and no plane the mask does not name changes.
C21_BlitToEveryMappedSlot ==
    [][(/\ call'.op \in BlitOps
        /\ drawFb # 0
        /\ glBlitFramebufferError(readFb, drawFb, BlitMaskOf(call'), GL_NEAREST)
                = "GL_NO_ERROR")
        => LET source == ReadColorBufferOf(readFb)
               mapped == {drawBuffers[drawFb][i] : i \in DOMAIN drawBuffers[drawFb]}
               colorPoints == {GL_COLOR_ATTACHMENT0 + k : k \in ColorAttachmentIds}
               receiving == {attachments[drawFb][p] : p \in mapped \cap colorPoints}
                                \ {NoAttachment}
               copies == HasBit(BlitMaskOf(call'), GL_COLOR_BUFFER_BIT)
                            /\ source # NoAttachment
           IN  /\ \A img \in receiving :
                    copies => ImageOf(content', img).color = ImageOf(content, source).color
               /\ \A p \in colorPoints :
                    attachments[drawFb][p] \notin receiving
                        => ImageOf(content', attachments[drawFb][p])
                                = ImageOf(content, attachments[drawFb][p])
               /\ ~copies
                    => \A img \in DOMAIN content' \cup DOMAIN content :
                            ImageOf(content', img).color = ImageOf(content, img).color]_vars

\* Framebuffer 1 has two different images as color attachments 0 and 15 and
\* the draw mapping {15, 0}; the one clear so far went to the default
\* framebuffer, and a blit from it has given both images the color of the
\* default framebuffer's back buffer.
C21_Witness ==
    /\ call.op \in BlitOps
    /\ clearCalls = 1
    /\ \A px \in Pixels :
            ImageOf(content, DefaultBuffer(GL_BACK_LEFT)).color[px] = <<0, 0, 0, One>>
    /\ BlitMaskOf(call) = GL_COLOR_BUFFER_BIT
    /\ readFb = 0
    /\ drawFb = 1
    /\ glError = "GL_NO_ERROR"
    /\ drawBuffers[1] = <<GL_COLOR_ATTACHMENT0 + MaxColorAttachmentId, GL_COLOR_ATTACHMENT0>>
    /\ attachments[1][GL_COLOR_ATTACHMENT0] # NoAttachment
    /\ attachments[1][GL_COLOR_ATTACHMENT0 + MaxColorAttachmentId] # NoAttachment
    /\ attachments[1][GL_COLOR_ATTACHMENT0]
            # attachments[1][GL_COLOR_ATTACHMENT0 + MaxColorAttachmentId]
    /\ \A px \in Pixels :
        /\ ImageOf(content, attachments[1][GL_COLOR_ATTACHMENT0]).color[px]
                = <<0, 0, 0, One>>
        /\ ImageOf(content, attachments[1][GL_COLOR_ATTACHMENT0 + MaxColorAttachmentId]).color[px]
                = <<0, 0, 0, One>>

(***************************************************************************)
(* Attaching what cannot be rendered to.                                   *)
(***************************************************************************)
\* The framebuffers a recorded clear, blit or read works on.
WorksOn(c, readBound, drawBound) ==
    IF c.op \in ClearOps THEN {drawBound}
    ELSE IF c.op \in BlitOps THEN {readBound, drawBound}
    ELSE IF c.op = "read" THEN {readBound}
    ELSE {}
Incomplete == "GL_INVALID_FRAMEBUFFER_OPERATION"

ActsOn(c, T) ==
    /\ c.op = "attachRenderbufferDepthStencil" =>
        /\ T # 0
        /\ attachments'[T][c.args[1]] = RenderbufferImage(c.args[2])
    /\ c.op = "mapForRead" => readBuffer'[T] = GL_COLOR_ATTACHMENT0 + c.args[1]
    /\ c.op = "clear" =>
        LET depth == DepthBufferOf(T) IN
        (GL_DEPTH_TEST \in enabled /\ FramebufferComplete(T) /\ depth # NoAttachment)
            => ImageOf(content', depth).depth = [px \in Pixels |-> clearValues.depth]
    /\ c.op = "blit" =>
        LET source == DepthBufferOf(T)
            destination == DepthBufferOf(drawFb)
        IN (/\ FramebufferComplete(T) /\ FramebufferComplete(drawFb)
            /\ source # NoAttachment /\ destination # NoAttachment
            /\ source # destination)
            => ImageOf(content', destination).depth = ImageOf(content, source).depth

\* The step changes nothing of framebuffer T: not its attachments, not its
\* mappings, not the contents of what is attached to it alone.
Bypasses(T, other) ==
    /\ SameConfiguration(T)
    /\ \A image \in ImagesOf(T) \ ImagesOf(other) :
        ImageOf(content', image) = ImageOf(content, image)

(***************************************************************************)
(* C23.  With two threads on one context, the native attach, map, clear or *)
(* blit of a call acts on the framebuffer bound to the call's role when    *)
(* the native step runs.  Without serialization that can be a framebuffer  *)
(* another thread has bound in between, and then an attach, map or clear   *)
(* changes nothing of the caller's own framebuffer and a blit reads from   *)
(* the other one; when every call runs as one critical section it is       *)
(* always the framebuffer the caller bound.                                *)
(***************************************************************************)
C23_ThreadsAndBindings ==
    [][\A t \in Threads :
        (threads.pending[t] # NoCall /\ threads'.pending[t] = NoCall) =>
            LET c == threads.pending[t]
                bound == BoundTo(Bindings, c.target)
            IN /\ ActsOn(c, bound)
               /\ (bound # c.fb /\ c.op # "blit") => Bypasses(c.fb, bound)
               /\ threads.serialized => bound = c.fb]_vars

\* Without a lock, the only attach started so far was called on framebuffer 1
\* and has finished: the renderbuffer is attached to framebuffer 2, which
\* another thread had bound for drawing in between, and framebuffer 1 has no
\* attachment.
C23_Witness ==
    /\ ~threads.serialized
    /\ call.op = "attachRenderbufferDepthStencil"
    /\ call.fb = 1
    /\ attachCalls = 1
    /\ attachments[2][GL_DEPTH_ATTACHMENT] = RenderbufferImage(call.args[2])
    /\ attachments[1] = EmptyAttachments

(***************************************************************************)
(* C24.  The handle of a framebuffer object is a name the context has      *)
(* generated and not deleted for as long as the object lives, and every    *)
(* such name is held by a live object.  Names are generated by the         *)
(* constructor only, which takes a name not in use, and deleted by the     *)
(* destructor only, which deletes the name of the object destroyed, a name *)
(* still in use: no name is deleted twice or while its object lives on.    *)
(***************************************************************************)
C24_HandleLifetime ==
    /\ [](alive = names)
    /\ [][/\ call'.op = "~Framebuffer" =>
                /\ call'.fb \in names
                /\ names' = names \ {call'.fb}
                /\ alive' = alive \ {call'.fb}
          /\ call'.op = "Framebuffer" =>
                /\ call'.fb \notin names
                /\ names' = names \cup {call'.fb}
                /\ alive' = alive \cup {call'.fb}
          /\ call'.op \notin {"Framebuffer", "~Framebuffer"} =>
                /\ names' = names
                /\ alive' = alive]_vars

\* Framebuffer object 1 has just been destroyed and its name deleted, while
\* object 2 lives on, bound for reading, with its name; a new object can be
\* constructed and be given name 1 again.
C24_Witness ==
    /\ call.op = "~Framebuffer"
    /\ call.fb = 1
    /\ names = {2}
    /\ alive = {2}
    /\ readFb = 2
    /\ ENABLED (Constructor(1) /\ names' = {1, 2})

(***************************************************************************)
(* The setters of the pipeline state.                                      *)
(***************************************************************************)
SetterOps ==
    {"setClearColor", "setClearDepth", "setClearStencil", "setColorMask",
     "setDepthMask", "setStencilMask", "setStencilMaskFace", "setBlendEquation",
     "setBlendEquationSeparate", "setBlendFunction", "setBlendFunctionSeparate",
     "setBlendColor", "setViewport"}

\* The place in Settings of what a setter records.
OwnSetting(op) ==
    CASE op = "setClearColor" -> 1
      [] op = "setClearDepth" -> 2
      [] op = "setClearStencil" -> 3
      [] op = "setColorMask" -> 4
      [] op = "setDepthMask" -> 5
      [] op \in {"setStencilMask", "setStencilMaskFace"} -> 6
      [] op \in {"setBlendEquation", "setBlendEquationSeparate"} -> 7
      [] op \in {"setBlendFunction", "setBlendFunctionSeparate"} -> 8
      [] op = "setBlendColor" -> 9
      [] op = "setViewport" -> 10

\* What the setter called with c records there: its arguments, the depth
\* clamped to [0, 1], the stencil masks of the faces named cut to the bits of
\* the stencil buffer, and the viewport unless its size is negative.
RecordedBy(c) ==
    LET a == c.args
        bits(n) == n % 2^StencilBits
    IN
    CASE c.op \in {"setClearColor", "setClearStencil", "setDepthMask", "setBlendColor"}
            -> a[1]
      [] c.op = "setClearDepth" -> IF a[1] < 0 THEN 0 ELSE IF a[1] > One THEN One ELSE a[1]
      [] c.op \in {"setColorMask", "setBlendEquationSeparate", "setBlendFunctionSeparate"}
            -> a
      [] c.op = "setStencilMask" -> <<bits(a[1]), bits(a[1])>>
      [] c.op = "setStencilMaskFace" ->
            <<IF a[1] = GL_BACK THEN writeMasks.front ELSE bits(a[2]),
              IF a[1] = GL_FRONT THEN writeMasks.back ELSE bits(a[2])>>
      [] c.op = "setBlendEquation" -> <<a[1], a[1]>>
      [] c.op = "setBlendFunction" -> <<a[1], a[2], a[1], a[2]>>
      [] c.op = "setViewport" ->
            IF a[2][1] >= 0 /\ a[2][2] >= 0 THEN [position |-> a[1], size |-> a[2]]
            ELSE viewport

(***************************************************************************)
(* C25.  A clear-value, write-mask, blend or viewport setter records its   *)
(* value in its own setting and changes nothing else: not another setting, *)
(* not the bindings, the framebuffer objects, their attachments and        *)
(* mappings, the features enabled, the static mask of clear(), nor the     *)
(* contents of any buffer.                                                 *)
(***************************************************************************)
C25_SettersSetOneValue ==
    [][call'.op \in SetterOps =>
        /\ Settings'[OwnSetting(call'.op)] = RecordedBy(call')
        /\ \A i \in DOMAIN Settings \ {OwnSetting(call'.op)} : Settings'[i] = Settings[i]
        /\ UNCHANGED <<bindingVars, objectVars, names, enabled, clearMask, content,
                       image2D>>]_vars

\* The color texture of framebuffer 1 was cleared to the initial clear color;
\* then the clear color was set and the stencil mask of the front faces
\* cleared, the back mask keeping every bit: framebuffer 1 is still bound for
\* drawing, the texture still has the color it was cleared to, and the next
\* clear gives it the new clear color.
C25_Witness ==
    /\ call.op = "setStencilMaskFace"
    /\ call.args = <<GL_FRONT, 0>>
    /\ writeMasks.front = 0
    /\ writeMasks.back = AllBits
    /\ clearValues.color \in ClearColors
    /\ drawFb = 1
    /\ clearCalls = 1
    /\ attachments[1][GL_COLOR_ATTACHMENT0] # NoAttachment
    /\ \A px \in Pixels :
        ImageOf(content, attachments[1][GL_COLOR_ATTACHMENT0]).color[px] = <<0, 0, 0, One>>
    /\ ENABLED (/\ clear
                /\ \A px \in Pixels :
                    ImageOf(content', attachments[1][GL_COLOR_ATTACHMENT0]).color[px]
                        = clearValues.color)

(***************************************************************************)
(* C26.  After mapDefaultForRead(a), called in any state, the default      *)
(* framebuffer is bound for reading, whatever was bound for reading        *)
(* before, and reads from a; the Draw binding, the read mapping of every   *)
(* framebuffer object and every draw mapping are as before.                *)
(***************************************************************************)
C26_MapDefaultForRead ==
    [][call'.op = "mapDefaultForRead"
        => /\ readFb' = 0
           /\ readBuffer'[0] = call'.args[1]
           /\ drawFb' = drawFb
           /\ \A T \in Handles : readBuffer'[T] = readBuffer[T]
           /\ drawBuffers' = drawBuffers
           /\ attachments' = attachments]_vars

\* Framebuffer 1 is bound to both roles and reads from color attachment 15, the
\* default framebuffer from the back buffer: mapDefaultForRead(Front) binds
\* the default framebuffer for reading and maps it to the front buffer;
\* framebuffer 1 stays Draw-bound and keeps its read mapping.
C26_Witness ==
    /\ readFb = 1
    /\ drawFb = 1
    /\ readBuffer[1] = GL_COLOR_ATTACHMENT0 + MaxColorAttachmentId
    /\ readBuffer[0] = GL_BACK_LEFT
    /\ ENABLED (/\ mapDefaultForRead(GL_FRONT)
                /\ readFb' = 0
                /\ drawFb' = 1
                /\ readBuffer'[0] = GL_FRONT
                /\ readBuffer'[1] = GL_COLOR_ATTACHMENT0 + MaxColorAttachmentId)

(***************************************************************************)
(* What follows an attach.                                                 *)
(***************************************************************************)
\* No image but those of framebuffer T changes in the step.
OnlyWrites(T) ==
    \A img \in (DOMAIN content' \cup DOMAIN content) \ ImagesOf(T) :
        ImageOf(content', img) = ImageOf(content, img)

\* The step gives every mapped color buffer of framebuffer T the clear color,
\* if T is complete.
ClearsColorOf(T) ==
    FramebufferComplete(T) =>
        \A img \in ColorBuffersOf(T) : \A px \in Pixels :
            ImageOf(content', img).color[px] = clearValues.color

\* The step hands out the pixels of the read buffer of framebuffer T, if T is
\* complete.
ReadsFrom(T) ==
    FramebufferComplete(T) =>
        \A px \in Pixels \cap DOMAIN image2D'.data :
            image2D'.data[px] = ImageOf(content, ReadColorBufferOf(T)).color[px]

\* The step copies the read buffer of framebuffer T to the mapped color
\* buffers of the Draw-bound framebuffer, if both are complete and different.
CopiesFrom(T) ==
    (/\ FramebufferComplete(T) /\ FramebufferComplete(drawFb)
     /\ drawFb # T
     /\ ReadColorBufferOf(T) # NoAttachment)
        => \A img \in ColorBuffersOf(drawFb) \ {ReadColorBufferOf(T)} :
                ImageOf(content', img).color = ImageOf(content, ReadColorBufferOf(T)).color

(***************************************************************************)
(* C27.  An attach does not bind back what was bound before: right after   *)
(* an attach on T with role r, T is bound to r (to both roles for          *)
(* ReadDraw), and the operation issued next through r works on T: a clear  *)
(* or a blit through Draw writes images of T only, the clear giving T's    *)
(* color buffers the clear color, and a read or a blit through Read takes  *)
(* its pixels from the read buffer of T.                                   *)
(***************************************************************************)
C27_AttachLeavesBound ==
    call.op \in AttachOps =>
        LET T == call.fb
            whole == <<<<0, 0>>, <<Width, Height>>>>
        IN
        /\ BoundToRole(T, call.target, readFb, drawFb)
        /\ (call.target \in {GL_DRAW_FRAMEBUFFER, GL_FRAMEBUFFER}
                /\ clearCalls < MaxClearCalls) =>
            /\ ENABLED clear
            /\ ~ENABLED (clear /\ ~(OnlyWrites(T) /\ ClearsColorOf(T)))
        /\ (call.target \in {GL_DRAW_FRAMEBUFFER, GL_FRAMEBUFFER}
                /\ transferCalls < MaxTransferCalls) =>
            /\ ENABLED blitSameRectangle(whole[1], whole[2], GL_COLOR_BUFFER_BIT)
            /\ ~ENABLED (/\ blitSameRectangle(whole[1], whole[2], GL_COLOR_BUFFER_BIT)
                         /\ ~OnlyWrites(T))
        /\ (call.target \in {GL_READ_FRAMEBUFFER, GL_FRAMEBUFFER}
                /\ transferCalls < MaxTransferCalls) =>
            /\ ENABLED read(whole[1], whole[2])
            /\ ~ENABLED (read(whole[1], whole[2]) /\ ~ReadsFrom(T))
            /\ ~ENABLED (/\ blitSameRectangle(whole[1], whole[2], GL_COLOR_BUFFER_BIT)
                         /\ ~CopiesFrom(T))

\* Framebuffer 1, with its cube map face, was bound for drawing and cleared;
\* the attach of the other face to framebuffer 2 through ReadDraw has left
\* framebuffer 2 bound to both roles, and the next clear gives the face of
\* framebuffer 2 the clear color and leaves the face of framebuffer 1 as it
\* is.
C27_Witness ==
    /\ call.op = "attachCubeMapTextureColor"
    /\ call.fb = 2
    /\ call.target = GL_FRAMEBUFFER
    /\ readFb = 2
    /\ drawFb = 2
    /\ clearCalls = 1
    /\ attachments[1][GL_COLOR_ATTACHMENT0] \in DOMAIN content
    /\ attachments[2][GL_COLOR_ATTACHMENT0] \notin DOMAIN content \cup {NoAttachment}
    /\ ENABLED (/\ clear
                /\ attachments[2][GL_COLOR_ATTACHMENT0] \in DOMAIN content'
                /\ content'[attachments[1][GL_COLOR_ATTACHMENT0]]
                        = content[attachments[1][GL_COLOR_ATTACHMENT0]])

(***************************************************************************)
(* C28.  In every reachable state the static mask of the no-argument       *)
(* clear() is Color, plus Depth exactly if the depth test is enabled, plus *)
(* Stencil exactly if the stencil test is enabled; and no step but a       *)
(* setFeature of the depth or the stencil test changes it: not toggling    *)
(* another feature, not clear() or clear(mask), not binding, attaching,    *)
(* mapping or destroying a framebuffer.                                    *)
(***************************************************************************)
C28_ClearMaskFollowsTests ==
    /\ [](clearMask = GL_COLOR_BUFFER_BIT
                        + (IF GL_DEPTH_TEST \in enabled THEN GL_DEPTH_BUFFER_BIT ELSE 0)
                        + (IF GL_STENCIL_TEST \in enabled THEN GL_STENCIL_BUFFER_BIT ELSE 0))
    /\ [][~(call'.op = "setFeature" /\ call'.args[1] \in {GL_DEPTH_TEST, GL_STENCIL_TEST})
            => clearMask' = clearMask]_vars

\* With blending and the depth test enabled and the stencil test disabled,
\* framebuffer 1 destroyed and the default framebuffer bound, clear(Depth |
\* Stencil) has been called: the static mask is still Color and Depth.
C28_Witness ==
    /\ call.op = "clearWithMask"
    /\ call.args[1] = GL_DEPTH_BUFFER_BIT + GL_STENCIL_BUFFER_BIT
    /\ enabled = {GL_DITHER, GL_BLEND, GL_DEPTH_TEST}
    /\ 1 \notin alive
    /\ drawFb = 0
    /\ clearMask = GL_COLOR_BUFFER_BIT + GL_DEPTH_BUFFER_BIT

====
